---- MODULE Spec2Model ----
(***************************************************************************)
(* NewsNeuron backend: hybrid retrieval, citation processing and the chat  *)
(* orchestrator, modelled from backend/app.                                *)
(*                                                                         *)
(* Python str values are TLA+ strings (Len, SubSeq and \o act on them      *)
(* character by character).  Python offsets are 0-based and slices are     *)
(* half-open; TLA+ indices are 1-based, the conversions are in PySlice     *)
(* and in the regular-expression scan.  An Optional value is a set with    *)
(* at most one element: {} is None, {v} is v.                              *)
(***************************************************************************)
EXTENDS Integers, Sequences, FiniteSets, TLC

VARIABLES
    cp_pc,          \* citation processor: "ready", "done" or "raised"
    cp_pass,        \* number of process_response_citations calls made
    cp_text,        \* response_text argument of the current call
    cp_sources,     \* source_articles argument
    cp_processed,   \* processed_text returned by the current call
    cp_citations,   \* citations returned by the current call
    uuid_ctr,       \* number of uuid4 values drawn so far
    hs_pc,          \* hybrid_search: "idle", "vector", "graph", "fuse" or "done"
    hs_req,         \* arguments of the hybrid_search call
    hs_store,       \* ids of the articles the relational store holds
    hs_vector,      \* vector_results
    hs_queried,     \* the stores the request has sent a search to
    hs_results,     \* results: articles, query_entities, graph_results
    ag_history,     \* LangGraphAgent.conversation_history: conversation id -> list
    ag_calls,       \* process_message calls: where each is and what it returned
    ag_clock,       \* readings of datetime.now() so far
    ag_log,         \* every message appended to a conversation's list, evicted or not
    ch_pc,          \* chat endpoint: "idle", "processing" or "answered"
    ch_request,     \* the ChatRequest being served
    ch_conversation_id, \* conversation id of the request being served
    ch_response,    \* what the endpoint answered: status code and body
    ch_turns,       \* the requests answered so far, in order
    ch_uuid,        \* number of uuid4 values the endpoint has drawn
    nj_driver,      \* Neo4jClient.driver is not None
    nj_graph,       \* what the graph store holds: nodes and relationships
    nj_call,        \* the last call made on the graph query layer
    nj_result,      \* what that call returned, or that it raised
    fs_pc,          \* find_similar_articles: "idle", "called" or "returned"
    fs_store,       \* ids of the articles the relational store holds
    fs_call,        \* arguments of the call and what the similarity search finds
    fs_result,      \* the list the call returned
    ee_pc,          \* extract_entities: "idle", "called" or "returned"
    ee_text,        \* text argument
    ee_entities,    \* the list the call returned
    se_pc,          \* search_entities: "idle", "gathering", "joined" or "returned"
    se_req,         \* arguments of the search_entities call
    se_supabase,    \* the relational branch: pending, or how it ended
    se_neo4j,       \* the graph branch: pending, or how it ended
    se_result,      \* the list the call returned
    fn_pc,          \* a function applied to arguments: "idle", "called" or "returned"
    fn_call,        \* the function and its arguments
    fn_result,      \* what it returned
    rg_history,     \* RAGEnhancedAgent.conversation_history: conversation id -> list
    rg_response     \* what the last process_message_with_rag_details call returned

cp_vars == <<cp_pc, cp_pass, cp_text, cp_sources, cp_processed, cp_citations, uuid_ctr>>

hs_vars == <<hs_pc, hs_req, hs_store, hs_vector, hs_queried, hs_results>>

ag_vars == <<ag_history, ag_calls, ag_clock, ag_log>>

ch_vars == <<ch_pc, ch_request, ch_conversation_id, ch_response, ch_turns, ch_uuid>>

nj_vars == <<nj_driver, nj_graph, nj_call, nj_result>>

\* the chat pipeline, and the query layers beside it
core_vars == <<cp_vars, hs_vars, ag_vars, ch_vars>>
fs_vars == <<fs_pc, fs_store, fs_call, fs_result>>

ee_vars == <<ee_pc, ee_text, ee_entities>>

se_vars == <<se_pc, se_req, se_supabase, se_neo4j, se_result>>

fn_vars == <<fn_pc, fn_call, fn_result>>

rg_vars == <<rg_history, rg_response>>

ext_vars == <<nj_vars, fs_vars, ee_vars, se_vars, fn_vars, rg_vars>>

vars == <<core_vars, ext_vars>>

\* what the steps of one component leave alone
not_cp == <<hs_vars, ag_vars, ch_vars, ext_vars>>
not_hs == <<cp_vars, ag_vars, ch_vars, ext_vars>>
not_ag == <<cp_vars, hs_vars, ext_vars>>
not_nj == <<core_vars, fs_vars, ee_vars, se_vars, fn_vars, rg_vars>>
not_fs == <<core_vars, nj_vars, ee_vars, se_vars, fn_vars, rg_vars>>
not_ee == <<core_vars, nj_vars, fs_vars, se_vars, fn_vars, rg_vars>>
not_se == <<core_vars, nj_vars, fs_vars, ee_vars, fn_vars, rg_vars>>
not_fn == <<core_vars, nj_vars, fs_vars, ee_vars, se_vars, rg_vars>>
not_rg == <<core_vars, nj_vars, fs_vars, ee_vars, se_vars, fn_vars>>

-----------------------------------------------------------------------------
(* Bounds *)

MaxSegs == 2        \* segments concatenated into a response text
MaxSources == 2     \* source articles handed to the citation processor
MaxPasses == 2      \* times a text is handed to the citation processor
MaxArticleId == 2   \* article ids the stores may mention
MaxChunks == 2      \* chunk matches returned by one similarity search
MaxEvents == 1      \* events in one entity timeline
MaxLimit == 2       \* limit argument of a search
MaxCalls == 2       \* process_message calls the model keeps track of
MaxTurns == 2       \* process_message calls made on an agent
MaxLongTurns == 12  \* calls made in the runs that fill a history
MaxRagCalls == 11   \* calls made on one RAGEnhancedAgent
MaxRequests == 2    \* requests sent to the chat endpoint
MaxDepth == 2       \* max_depth of a traversal of the graph
MaxSimilarId == 3    \* article ids a search for similar articles may meet
MaxWords == 2       \* words of a short text handed to extract_entities
MaxRows == 2        \* rows one store returns to an entity search

-----------------------------------------------------------------------------
(* Python str helpers *)

None == {}
Some(v) == {v}
TheValue(o) == CHOOSE v \in o : TRUE

Min(a, b) == IF a < b THEN a ELSE b
Max(a, b) == IF a > b THEN a ELSE b

Char(s, i) == SubSeq(s, i, i)

\* s[a:b] with Python's clamping of non-negative bounds
PySlice(s, a, b) == SubSeq(s, Min(a, Len(s)) + 1, Min(b, Len(s)))

StartsWithAt(s, i, p) ==
    /\ i >= 1
    /\ i + Len(p) - 1 <= Len(s)
    /\ \/ Len(p) = 0
       \/ /\ Char(s, i) = Char(p, 1)
          /\ SubSeq(s, i, i + Len(p) - 1) = p

\* needle in hay
Contains(hay, needle) ==
    \E i \in 1..(Len(hay) + 1) : StartsWithAt(hay, i, needle)

UPPER == "ABCDEFGHIJKLMNOPQRSTUVWXYZ"
LOWER == "abcdefghijklmnopqrstuvwxyz"

\* the lower-case letter of every upper-case letter
LowerOf == [c \in { Char(UPPER, k) : k \in 1..26 } |->
               Char(LOWER, CHOOSE k \in 1..26 : Char(UPPER, k) = c)]

LowerChar(c) == IF c \in DOMAIN LowerOf THEN LowerOf[c] ELSE c

RECURSIVE Lower(_)
Lower(s) == IF s = "" THEN "" ELSE LowerChar(Char(s, 1)) \o Lower(SubSeq(s, 2, Len(s)))

IsSpace(c) == c \in {" ", "\t", "\n", "\r"}

SetMin(S) == CHOOSE x \in S : \A y \in S : x <= y
SetMax(S) == CHOOSE x \in S : \A y \in S : x >= y

\* the indices of s that hold character c
IndicesOf(s, c) == { i \in 1..Len(s) : Char(s, i) = c }

\* s.strip()
Strip(s) ==
    LET N == { i \in 1..Len(s) : ~IsSpace(Char(s, i)) }
    IN  IF N = {} THEN "" ELSE SubSeq(s, SetMin(N), SetMax(N))

\* s.split(sep) for a one-character sep; P holds the indices of sep in s
RECURSIVE SplitFrom(_, _, _)
SplitFrom(s, P, from) ==
    LET rest == { i \in P : i >= from }
    IN  IF rest = {} THEN <<SubSeq(s, from, Len(s))>>
        ELSE <<SubSeq(s, from, SetMin(rest) - 1)>> \o SplitFrom(s, P, SetMin(rest) + 1)

Split(s, sep) == SplitFrom(s, IndicesOf(s, sep), 1)

\* sep.join(parts)
RECURSIVE Join(_, _)
Join(parts, sep) ==
    IF parts = <<>> THEN ""
    ELSE IF Len(parts) = 1 THEN parts[1]
    ELSE parts[1] \o sep \o Join(Tail(parts), sep)

Reverse(q) == [i \in 1..Len(q) |-> q[Len(q) + 1 - i]]

SeqsUpTo(S, n) == UNION { [1..k -> S] : k \in 0..n }

IsInjective(q) == \A i, j \in 1..Len(q) : q[i] = q[j] => i = j

-----------------------------------------------------------------------------
(* CitationProcessor: citation_processor.py *)

\* self.citation_pattern = r'\[Sources?:\s*([^\]]+)\]'
\* KeywordEnd: 1-based index of the character after "[Source:" or
\* "[Sources:" when the text has one at i, else 0 (the pattern is compiled
\* without re.IGNORECASE, so the keyword is matched as written).
KeywordEnd(s, i) ==
    IF StartsWithAt(s, i, "[Sources:") THEN i + 9
    ELSE IF StartsWithAt(s, i, "[Source:") THEN i + 8
    ELSE 0

\* index of the first "]" at or after k, 0 when there is none
FirstClose(s, k) ==
    LET closes == { j \in k..Len(s) : Char(s, j) = "]" }
    IN  IF closes = {} THEN 0 ELSE SetMin(closes)

\* \s* is greedy but gives characters back so that ([^\]]+) is not empty
GroupStart(s, k, close) ==
    LET solid == { j \in k..(close - 1) : ~IsSpace(Char(s, j)) }
    IN  IF solid = {} THEN close - 1 ELSE SetMin(solid)

\* re.match of the pattern at 1-based index i: a record with the Python
\* offsets start() and end() and group(1); matched = FALSE when no match
MatchAt(s, i) ==
    LET k == KeywordEnd(s, i)
        close == IF k = 0 THEN 0 ELSE FirstClose(s, k)
    IN  IF k = 0 \/ close = 0 \/ close = k
        THEN [matched |-> FALSE, start |-> 0, end |-> 0, group |-> ""]
        ELSE [matched |-> TRUE, start |-> i - 1, end |-> close,
              group |-> SubSeq(s, GroupStart(s, k, close), close - 1)]

\* list(re.finditer(pattern, s)): non-overlapping matches, left to right
\* starts holds the indices at which the pattern matches
RECURSIVE FindIterFrom(_, _, _)
FindIterFrom(s, starts, i) ==
    LET rest == { j \in starts : j >= i }
    IN  IF rest = {} THEN <<>>
        ELSE LET m == MatchAt(s, SetMin(rest))
             IN  <<m>> \o FindIterFrom(s, starts, m.end + 1)

FindIter(s) == FindIterFrom(s, { j \in IndicesOf(s, "[") : MatchAt(s, j).matched }, 1)

\* an insertion-ordered dict as a sequence of [key, value]; d[k] = v
DictHas(d, k) == \E i \in 1..Len(d) : d[i].key = k
DictGet(d, k) == d[CHOOSE i \in 1..Len(d) : d[i].key = k].value
DictSet(d, k, v) ==
    IF DictHas(d, k)
    THEN [i \in 1..Len(d) |-> IF d[i].key = k THEN [key |-> k, value |-> v] ELSE d[i]]
    ELSE Append(d, [key |-> k, value |-> v])

ShortTitleLen == 30

RECURSIVE _create_article_map_from(_, _)
_create_article_map_from(articles, article_map) ==
    IF articles = <<>> THEN article_map
    ELSE LET article == articles[1]
             title == article.title
             m1 == DictSet(article_map, title, article)
             m2 == DictSet(m1, Lower(title), article)
             m3 == IF Len(title) > ShortTitleLen
                   THEN DictSet(m2, PySlice(title, 0, ShortTitleLen) \o "...", article)
                   ELSE m2
         IN  _create_article_map_from(Tail(articles), m3)

_create_article_map(articles) == _create_article_map_from(articles, <<>>)

PartialMatch(source_name, title) ==
    \/ Contains(Lower(title), Lower(source_name))
    \/ Contains(Lower(source_name), Lower(title))

\* Optional[article]
_find_matching_article(source_name, article_map) ==
    IF DictHas(article_map, source_name)
    THEN Some(DictGet(article_map, source_name))
    ELSE IF DictHas(article_map, Lower(source_name))
    THEN Some(DictGet(article_map, Lower(source_name)))
    ELSE IF \E i \in 1..Len(article_map) : PartialMatch(source_name, article_map[i].key)
    THEN Some(article_map[CHOOSE i \in 1..Len(article_map) :
                    /\ PartialMatch(source_name, article_map[i].key)
                    /\ \A j \in 1..(i - 1) : ~PartialMatch(source_name, article_map[j].key)].value)
    ELSE None

DEC == "0123456789"

\* str(n) of a non-negative int
RECURSIVE Str(_)
Str(n) == IF n < 10 THEN Char(DEC, n + 1) ELSE Str(n \div 10) \o Char(DEC, (n % 10) + 1)

HEX == "0123456789abcdef"

\* uuid.uuid4().hex[:8] of the n-th draw: draws are pairwise distinct
Hex8(n) == "000000" \o Char(HEX, ((n \div 16) % 16) + 1) \o Char(HEX, (n % 16) + 1)

_generate_verification_url(article_info) ==
    IF article_info.id # 0
    THEN Some("/api/v1/articles/" \o Str(article_info.id) \o "/verify")
    ELSE None

\* CitationInfo(...) raises a ValidationError when a required str field
\* (schemas.py: publication) is given None
CitationInfoValid(article_info) == article_info.source # None

CitationInfoInclusiveEnd(citation_id, source_name, article_info, start_pos, end_pos) ==
    [id |-> citation_id,
     source_name |-> source_name,
     title |-> article_info.title,
     url |-> article_info.url,
     publication |-> article_info.source,
     published_date |-> article_info.published_date,
     position_in_text |-> [start |-> start_pos, end |-> end_pos - 1],
     verification_url |-> _generate_verification_url(article_info)]

CitationInfo(citation_id, source_name, article_info, start_pos, end_pos) ==
    [id |-> citation_id,
     source_name |-> source_name,
     title |-> article_info.title,
     url |-> article_info.url,
     publication |-> article_info.source,
     published_date |-> article_info.published_date,
     position_in_text |-> [start |-> start_pos, end |-> end_pos],
     verification_url |-> _generate_verification_url(article_info)]

_create_interactive_citation_html(citation_text, citation_infos) ==
    LET citation_ids == [i \in 1..Len(citation_infos) |-> citation_infos[i].id]
    IN  "<span class=\"citation-link\" data-citation-ids=\"" \o Join(citation_ids, ",")
        \o "\" data-original=\"" \o citation_text \o "\">[Sources: " \o citation_text
        \o "]</span>"

MatchOrderForward(citation_matches) == citation_matches

\* for match in reversed(citation_matches)
MatchOrder(citation_matches) == Reverse(citation_matches)

\* the loop "for source_name in source_names" of one match; acc carries
\* citations, the uuid draw counter and whether CitationInfo raised
RECURSIVE CiteNames(_, _, _, _, _)
CiteNames(source_names, article_map, start_pos, end_pos, acc) ==
    IF source_names = <<>> \/ acc.raised THEN acc
    ELSE LET source_name == source_names[1]
             article_info == _find_matching_article(source_name, article_map)
         IN  IF article_info = None
             THEN CiteNames(Tail(source_names), article_map, start_pos, end_pos, acc)
             ELSE IF ~CitationInfoValid(TheValue(article_info))
             THEN [acc EXCEPT !.raised = TRUE, !.uuid = @ + 1]
             ELSE CiteNames(Tail(source_names), article_map, start_pos, end_pos,
                     [acc EXCEPT
                        !.citations = Append(@, CitationInfo("cite_" \o Hex8(acc.uuid),
                                          source_name, TheValue(article_info), start_pos, end_pos)),
                        !.uuid = @ + 1])

\* the loop over the matches; acc also carries processed_text
RECURSIVE CiteMatches(_, _, _)
CiteMatches(matches, article_map, acc) ==
    IF matches = <<>> \/ acc.raised THEN acc
    ELSE LET match == matches[1]
             citation_text == match.group
             start_pos == match.start
             end_pos == match.end
             parts == Split(citation_text, ",")
             source_names == [i \in 1..Len(parts) |-> Strip(parts[i])]
             named == CiteNames(source_names, article_map, start_pos, end_pos,
                         [citations |-> acc.citations, uuid |-> acc.uuid, raised |-> FALSE])
             interactive_citation ==
                 _create_interactive_citation_html(citation_text,
                     SelectSeq(named.citations, LAMBDA c : c.position_in_text.start = start_pos))
             processed_text ==
                 PySlice(acc.text, 0, start_pos) \o interactive_citation
                 \o PySlice(acc.text, end_pos, Len(acc.text))
         IN  IF named.raised
             THEN [acc EXCEPT !.raised = TRUE, !.uuid = named.uuid]
             ELSE CiteMatches(Tail(matches), article_map,
                     [text |-> processed_text, citations |-> named.citations,
                      uuid |-> named.uuid, raised |-> FALSE])

\* returns [text, citations, uuid, raised]; raised = TRUE when the call
\* ends with an exception instead of returning (processed_text, citations)
process_response_citations(response_text, source_articles, uuid0) ==
    CiteMatches(MatchOrder(FindIter(response_text)),
                _create_article_map(source_articles),
                [text |-> response_text, citations |-> <<>>, uuid |-> uuid0, raised |-> FALSE])

\* the names of the groups matches[1..], split at the commas and stripped
RECURSIVE ExtendWithSources(_)
ExtendWithSources(matches) ==
    IF matches = <<>> THEN <<>>
    ELSE [i \in 1..Len(Split(matches[1].group, ",")) |->
             Strip(Split(matches[1].group, ",")[i])]
         \o ExtendWithSources(Tail(matches))

\* enhanced_rag_prompt.py: re.findall of the same pattern
extract_citations_from_response(response) == ExtendWithSources(FindIter(response))

-----------------------------------------------------------------------------
(* HybridRetriever: hybrid_retriever.py *)

common_entities ==
    << "AI", "Technology", "Climate", "Politics", "Economy",
       "Google", "Microsoft", "Tesla", "Apple", "Meta" >>

EntityLimit == 5

\* entity.lower() of every common entity
common_lower == [i \in 1..Len(common_entities) |-> Lower(common_entities[i])]

\* extract_entities without the [:5] of its return
extract_entities_unlimited(text) ==
    LET text_lower == Lower(text)
        found == { i \in 1..Len(common_entities) : Contains(text_lower, common_lower[i]) }
        entities == SelectSeq([i \in 1..Len(common_entities) |-> i], LAMBDA i : i \in found)
    IN  [k \in 1..Len(entities) |-> common_entities[entities[k]]]

extract_entities(text) ==
    LET text_lower == Lower(text)
        found == { i \in 1..Len(common_entities) : Contains(text_lower, common_lower[i]) }
        entities == SelectSeq([i \in 1..Len(common_entities) |-> i], LAMBDA i : i \in found)
    IN  [k \in 1..Min(EntityLimit, Len(entities)) |-> common_entities[entities[k]]]

\* a row of the articles table as a dict; the keys similarity_score, snippet
\* and from_graph are absent (None) until a search adds them
ArticleRow(id) ==
    [id |-> id, similarity_score |-> None, snippet |-> None, from_graph |-> None]

\* SupabaseClient.get_article_by_id: Optional[article]; every call returns a
\* dict of its own
get_article_by_id(store, article_id) ==
    IF article_id \in store THEN Some(ArticleRow(article_id)) ELSE None

\* the loop of vector_search over the chunk matches
RECURSIVE VectorLoop(_, _, _, _, _)
VectorLoop(chunk_matches, store, limit, articles, seen_ids) ==
    IF chunk_matches = <<>> THEN articles
    ELSE LET match == chunk_matches[1]
             article_id == match.article_id
         IN  IF article_id = 0 \/ article_id \in seen_ids
             THEN VectorLoop(Tail(chunk_matches), store, limit, articles, seen_ids)
             ELSE LET article == get_article_by_id(store, article_id)
                      found == article # None
                      articles2 ==
                          IF found
                          THEN Append(articles,
                                   [TheValue(article) EXCEPT
                                       !.similarity_score = Some(match.similarity),
                                       !.snippet = Some(match.content)])
                          ELSE articles
                      seen2 == IF found THEN seen_ids \cup {article_id} ELSE seen_ids
                  IN  IF Len(articles2) >= limit THEN articles2
                      ELSE VectorLoop(Tail(chunk_matches), store, limit, articles2, seen2)

\* vector_search without seen_ids: every chunk match whose article is found
\* adds an article of its own
vector_search_every_match(has_embedding, chunk_matches, store, limit) ==
    IF ~has_embedding THEN <<>>
    ELSE LET found == SelectSeq(chunk_matches,
                          LAMBDA match : get_article_by_id(store, match.article_id) # None)
         IN  [k \in 1..Min(limit, Len(found)) |->
                 [ArticleRow(found[k].article_id) EXCEPT
                     !.similarity_score = Some(found[k].similarity),
                     !.snippet = Some(found[k].content)]]

\* query_embedding is None when no embedding backend answers; chunk_matches
\* is what search_chunks_by_similarity returns for limit * 2
vector_search(has_embedding, chunk_matches, store, limit) ==
    IF ~has_embedding THEN <<>>
    ELSE VectorLoop(chunk_matches, store, limit, <<>>, {})

\* the loop over the timeline events without "if article:": an event adds an
\* entry whether or not the store holds its article
TimelineArticles_every_event(timeline, store) ==
    LET referenced == SelectSeq(timeline, LAMBDA timeline_event : timeline_event.supabase_id # 0)
    IN  [k \in 1..Len(referenced) |->
            [ArticleRow(referenced[k].supabase_id) EXCEPT !.from_graph = Some(TRUE)]]

\* the articles hybrid_search appends for the timeline events of graph_results
RECURSIVE TimelineArticles(_, _)
TimelineArticles(timeline, store) ==
    IF timeline = <<>> THEN <<>>
    ELSE LET timeline_event == timeline[1]
             article == IF timeline_event.supabase_id # 0
                        THEN get_article_by_id(store, timeline_event.supabase_id)
                        ELSE None
         IN  (IF article # None
              THEN <<[TheValue(article) EXCEPT !.from_graph = Some(TRUE)]>>
              ELSE <<>>) \o TimelineArticles(Tail(timeline), store)

RECURSIVE GraphArticles(_, _)
GraphArticles(graph_results, store) ==
    IF graph_results = <<>> THEN <<>>
    ELSE TimelineArticles(graph_results[1].timeline, store)
         \o GraphArticles(Tail(graph_results), store)

UniqueLastWins(articles) ==
    LET keep == { i \in 1..Len(articles) :
                    /\ articles[i].id # 0
                    /\ \A j \in (i + 1)..Len(articles) : articles[j].id # articles[i].id }
        idx == SelectSeq([i \in 1..Len(articles) |-> i], LAMBDA i : i \in keep)
    IN  [k \in 1..Len(idx) |-> articles[idx[k]]]

\* "Remove duplicates": the first article of each id is kept
UniqueArticles(articles) ==
    LET keep == { i \in 1..Len(articles) :
                    /\ articles[i].id # 0
                    /\ \A j \in 1..(i - 1) : articles[j].id # articles[i].id }
        idx == SelectSeq([i \in 1..Len(articles) |-> i], LAMBDA i : i \in keep)
    IN  [k \in 1..Len(idx) |-> articles[idx[k]]]

-----------------------------------------------------------------------------
(* LangGraphAgent: langgraph_agent.py, and the workflow of agents/ *)

HistoryCap == 20

CONFIG_RESPONSE ==
    "I'm a NewsNeuron AI assistant. Configure OPENROUTER_API_KEY to enable intelligent responses."
NO_SOURCES_RESPONSE ==
    "Based on the provided articles, there is insufficient information to answer this question."
GENERATION_ERROR_PREFIX ==
    "I encountered an error while processing your request: "
APOLOGY_RESPONSE ==
    "I apologize, but I encountered an error while processing your message. Please try again."

\* a dict without keys
EmptyDict == [k \in {} |-> <<>>]

\* The outcome of a stage: the dict it returns, or the exception it raises
\* (error is str(e)).  failed names the stages whose exception was caught on
\* the way to this outcome and retrieved counts the articles the generation
\* was given; the Python dict has no such keys.
Returned(response, sources, entities_mentioned) ==
    [raised |-> FALSE, error |-> "", response |-> response, sources |-> sources,
     entities_mentioned |-> entities_mentioned, failed |-> {}, retrieved |-> 0]

Raised(e, failed) ==
    [raised |-> TRUE, error |-> e, response |-> "", sources |-> <<>>,
     entities_mentioned |-> <<>>, failed |-> failed, retrieved |-> 0]

\* body with v as the value of its local name
With(v, body(_)) == body(v)

\* any(kw in text for kw in keywords)
AnyIn(text, keywords) == \E i \in 1..Len(keywords) : Contains(text, keywords[i])

_classify_intent(message) ==
    LET message_lower == Lower(message)
    IN  IF AnyIn(message_lower, <<"timeline", "history", "evolution", "over time">>)
            THEN "timeline"
        ELSE IF AnyIn(message_lower, <<"summary", "summarize", "flashcard", "brief">>)
            THEN "summary"
        ELSE IF AnyIn(message_lower, <<"search", "find", "look for", "show me">>)
            THEN "search"
        ELSE IF AnyIn(message_lower, <<"explain", "what is", "tell me about">>)
            THEN "explanation"
        ELSE IF AnyIn(message_lower, <<"related", "connected", "similar">>)
            THEN "relationship"
        ELSE "general"

\* env.analysis_raises: the body of _analyze_query raises and the except
\* branch returns the defaults
_analyze_query(message, env) ==
    IF env.analysis_raises
    THEN [entities |-> <<>>, intent |-> "general", requires_search |-> TRUE,
          is_temporal |-> FALSE, failed |-> {"analysis"}]
    ELSE LET message_lower == Lower(message)
         IN  [entities |-> extract_entities(message),
              intent |-> _classify_intent(message),
              requires_search |-> AnyIn(message_lower,
                  <<"what", "who", "when", "where", "how", "why",
                    "tell me", "find", "search", "show me">>),
              is_temporal |-> AnyIn(message_lower,
                  <<"recent", "latest", "today", "yesterday", "this week",
                    "timeline", "history", "evolution">>),
              failed |-> {}]

\* search_type and limit of the hybrid_search call _gather_context makes
SearchStrategy(query_analysis) ==
    IF query_analysis.intent = "timeline" /\ query_analysis.entities # <<>>
        THEN [search_type |-> "graph", limit |-> 10]
    ELSE IF query_analysis.intent \in {"search", "explanation"}
        THEN [search_type |-> "hybrid", limit |-> 8]
    ELSE [search_type |-> "vector", limit |-> 5]

\* env.articles are the articles the retriever finds for this call;
\* env.search_raises: the search raises and the except branch returns the
\* empty context
_gather_context(message, query_analysis, env) ==
    LET context == [articles |-> <<>>, entities |-> <<>>, graph_results |-> <<>>,
                    failed |-> {}]
        strategy == SearchStrategy(query_analysis)
    IN  IF ~query_analysis.requires_search THEN context
        ELSE IF env.search_raises THEN [context EXCEPT !.failed = {"retrieval"}]
        ELSE [context EXCEPT
                !.articles = SubSeq(env.articles, 1, Min(strategy.limit, Len(env.articles))),
                !.entities = query_analysis.entities]

SourceLimit == 5

_extract_sources(context) ==
    LET articles == SubSeq(context.articles, 1, Min(SourceLimit, Len(context.articles)))
    IN  [i \in 1..Len(articles) |->
            [title |-> articles[i].title, url |-> articles[i].url,
             source |-> articles[i].source,
             published_date |-> articles[i].published_date, id |-> articles[i].id]]

SnippetLen == 200

_extract_enhanced_sources(context) ==
    LET articles == SubSeq(context.articles, 1, Min(SourceLimit, Len(context.articles)))
    IN  [i \in 1..Len(articles) |->
            [title |-> articles[i].title, source_name |-> articles[i].title,
             url |-> articles[i].url, source |-> articles[i].source,
             published_date |-> articles[i].published_date, id |-> articles[i].id,
             similarity_score |-> articles[i].similarity_score,
             snippet |-> IF articles[i].content # None /\ TheValue(articles[i].content) # ""
                         THEN Some(PySlice(TheValue(articles[i].content), 0, SnippetLen) \o "...")
                         ELSE None]]

\* the try block of _generate_response; env.llm is what chat_completion and
\* extract_message_content do: raise an exception with text env.llm.text or
\* return the content env.llm.text
GenerateBody(message, context, query_analysis, env) ==
    IF ~env.llm_available
        THEN Returned(CONFIG_RESPONSE, <<>>, <<>>)
    ELSE IF context.articles = <<>>
        THEN Returned(NO_SOURCES_RESPONSE, <<>>, query_analysis.entities)
    ELSE IF env.llm.raises
        THEN Raised(env.llm.text, {})
    ELSE Returned(env.llm.text, _extract_enhanced_sources(context),
                  query_analysis.entities)

\* _generate_response without its except branch
_generate_response_uncaught(message, context, query_analysis, env) ==
    With(GenerateBody(message, context, query_analysis, env),
         LAMBDA r : [r EXCEPT !.failed = (IF r.raised THEN {"generation"} ELSE {}),
                              !.retrieved = Len(context.articles)])

_generate_response(message, context, query_analysis, env) ==
    With(GenerateBody(message, context, query_analysis, env),
         LAMBDA r :
            IF r.raised
            THEN [Returned(GENERATION_ERROR_PREFIX \o r.error, <<>>, <<>>)
                     EXCEPT !.failed = {"generation"}, !.error = r.error,
                            !.retrieved = Len(context.articles)]
            ELSE [r EXCEPT !.retrieved = Len(context.articles)])

\* QueryAnalyzerNode of the workflow
NodeIntent(query) ==
    LET q == Lower(query)
    IN  IF AnyIn(q, <<"timeline", "history", "evolution", "over time">>) THEN "timeline"
        ELSE IF AnyIn(q, <<"summary", "summarize", "flashcard", "brief">>) THEN "summary"
        ELSE IF AnyIn(q, <<"search", "find", "show me", "look for">>) THEN "search"
        ELSE IF AnyIn(q, <<"related", "connected", "similar">>) THEN "relationship"
        ELSE "general"

WorkflowLimit == 8

\* lines 58-74 of process_message: build the workflow, ainvoke it and make
\* the response from the state it returns.  env.workflow_raises: the import,
\* the build or a node raises.
RunWorkflow(message, env) ==
    IF env.workflow_raises THEN Raised("workflow", {"workflow"})
    ELSE LET entities == extract_entities(message)
             vector_results ==
                 SubSeq(env.articles, 1, Min(WorkflowLimit, Len(env.articles)))
             context == [articles |-> vector_results, graph_results |-> <<>>,
                         query_entities |-> entities]
             query_analysis == [entities |-> entities, intent |-> NodeIntent(message)]
         IN  With(_generate_response(message, context, query_analysis, env),
                  LAMBDA result :
                     IF result.raised
                     THEN [result EXCEPT !.failed = @ \cup {"workflow"}]
                     ELSE [Returned(result.response, _extract_sources(context), entities)
                              EXCEPT !.failed = result.failed, !.error = result.error,
                                     !.retrieved = result.retrieved])

\* lines 75-90: the except branch of the workflow
RunFallback(message, use_hybrid_search, env) ==
    With(_analyze_query(message, env), LAMBDA query_analysis :
    With(IF use_hybrid_search
         THEN _gather_context(message, query_analysis, env)
         ELSE [articles |-> <<>>, failed |-> {}], LAMBDA context :
    With(_generate_response(message, context, query_analysis, env), LAMBDA response :
        [response EXCEPT
            !.failed = @ \cup query_analysis.failed \cup context.failed \cup {"workflow"}])))

\* lines 57-90
RunStages(message, use_hybrid_search, env) ==
    With(RunWorkflow(message, env), LAMBDA wf :
        IF wf.raised THEN RunFallback(message, use_hybrid_search, env) ELSE wf)

\* datetime.now().isoformat() is the reading ts of a clock that every reading
\* advances
UserMessage(message, ts) ==
    [role |-> "user", content |-> message, timestamp |-> ts]

AssistantMessage(response, ts) ==
    [role |-> "assistant", content |-> response.response, timestamp |-> ts,
     sources |-> response.sources, entities_mentioned |-> response.entities_mentioned]

DictAppend(d, key, item) ==
    IF key \in DOMAIN d THEN [d EXCEPT ![key] = Append(@, item)]
    ELSE d @@ (key :> <<item>>)

\* the truncation with the oldest entries kept
TruncateKeepOldest(history) ==
    IF Len(history) > HistoryCap THEN SubSeq(history, 1, HistoryCap) ELSE history

\* lines 102-104: history[-20:]
Truncate(history) ==
    IF Len(history) > HistoryCap
    THEN SubSeq(history, Len(history) - HistoryCap + 1, Len(history))
    ELSE history

\* lines 45-55 of process_message, on the agent state [history, log, clock]
Begun(agent, message, conversation_id) ==
    LET msg == UserMessage(message, agent.clock)
    IN  [history |-> DictAppend(agent.history, conversation_id, msg),
         log |-> DictAppend(agent.log, conversation_id, msg),
         clock |-> agent.clock + 1]

\* the completion that records no assistant message for a turn that ends
\* with the refusal
Completed_without_refusal(agent, call, env) ==
    With(RunStages(call.message, call.use_hybrid_search, env), LAMBDA r :
        IF r.raised \/ r.response = NO_SOURCES_RESPONSE
        THEN [history |-> agent.history, log |-> agent.log, clock |-> agent.clock,
              result |-> r]
        ELSE [history |-> [agent.history EXCEPT ![call.conversation_id] =
                              Truncate(Append(@, AssistantMessage(r, agent.clock)))],
              log |-> DictAppend(agent.log, call.conversation_id,
                                 AssistantMessage(r, agent.clock)),
              clock |-> agent.clock + 1,
              result |-> r])

\* the conversation that received a message last
CurrentConversation(agent) ==
    CHOOSE c \in DOMAIN agent.history :
        \A d \in DOMAIN agent.history :
            agent.history[d][Len(agent.history[d])].timestamp
                <= agent.history[c][Len(agent.history[c])].timestamp

\* the completion of an agent that keeps one current conversation instead
\* of using the call's conversation_id
Completed_current_conversation(agent, call, env) ==
    With(RunStages(call.message, call.use_hybrid_search, env), LAMBDA r :
        [history |-> [agent.history EXCEPT ![CurrentConversation(agent)] =
                         Truncate(Append(@, AssistantMessage(r, agent.clock)))],
         log |-> DictAppend(agent.log, CurrentConversation(agent),
                            AssistantMessage(r, agent.clock)),
         clock |-> agent.clock + 1,
         result |-> r])

\* lines 57-114 of process_message: the stages, the assistant message, the
\* truncation and the return; the except branch of lines 108-114 when a
\* stage raised
Completed(agent, call, env) ==
    With(RunStages(call.message, call.use_hybrid_search, env), LAMBDA r :
        IF r.raised
        THEN [history |-> agent.history, log |-> agent.log, clock |-> agent.clock,
              result |-> [Returned(APOLOGY_RESPONSE, <<>>, <<>>)
                             EXCEPT !.failed = r.failed, !.error = r.error,
                                    !.retrieved = r.retrieved]]
        ELSE [history |-> [agent.history EXCEPT ![call.conversation_id] =
                              Truncate(Append(@, AssistantMessage(r, agent.clock)))],
              log |-> DictAppend(agent.log, call.conversation_id,
                                 AssistantMessage(r, agent.clock)),
              clock |-> agent.clock + 1,
              result |-> r])

-----------------------------------------------------------------------------
(* The components at rest *)

CpIdle ==
    /\ cp_pc = "idle"
    /\ cp_pass = 0
    /\ cp_text = ""
    /\ cp_sources = <<>>
    /\ cp_processed = ""
    /\ cp_citations = <<>>
    /\ uuid_ctr = 0

HsIdle ==
    /\ hs_pc = "idle"
    /\ hs_req = [query |-> "", search_type |-> "vector", limit |-> 1, include_entities |-> FALSE]
    /\ hs_store = {}
    /\ hs_vector = <<>>
    /\ hs_queried = {}
    /\ hs_results = [articles |-> <<>>, query_entities |-> <<>>, graph_results |-> <<>>]

Calls == 1..MaxCalls

IdleCall ==
    [pc |-> "idle", message |-> "", conversation_id |-> "", use_hybrid_search |-> TRUE,
     result |-> Returned("", <<>>, <<>>)]

Agent == [history |-> ag_history, log |-> ag_log, clock |-> ag_clock]

NoCallInFlight == \A k \in Calls : ag_calls[k].pc # "awaiting"

\* the slot a new call takes
FreeCall == SetMin({ k \in Calls : ag_calls[k].pc # "awaiting" })

\* LangGraphAgent.__init__
AgInit ==
    /\ ag_history = EmptyDict
    /\ ag_log = EmptyDict
    /\ ag_calls = [k \in Calls |-> IdleCall]
    /\ ag_clock = 0

ChIdle ==
    /\ ch_pc = "idle"
    /\ ch_request = [message |-> "", conversation_id |-> None, use_hybrid_search |-> TRUE]
    /\ ch_conversation_id = ""
    /\ ch_response = [status_code |-> 0]
    /\ ch_turns = <<>>
    /\ ch_uuid = 0

\* a graph store without nodes, and a client nothing was asked of
NjIdle ==
    /\ nj_driver = FALSE
    /\ nj_graph = [articles |-> {}, entities |-> {}, edges |-> {}]
    /\ nj_call = [op |-> "none"]
    /\ nj_result = [raised |-> FALSE, value |-> <<>>]

FsIdle ==
    /\ fs_pc = "idle"
    /\ fs_store = {}
    /\ fs_call = [article_id |-> 0]
    /\ fs_result = <<>>

EeIdle ==
    /\ ee_pc = "idle"
    /\ ee_text = ""
    /\ ee_entities = <<>>

\* a branch nothing was asked of
Pending == [state |-> "pending", value |-> <<>>]

SeIdle ==
    /\ se_pc = "idle"
    /\ se_req = [query |-> "", entity_type |-> None, limit |-> 0]
    /\ se_supabase = Pending
    /\ se_neo4j = Pending
    /\ se_result = <<>>

CoreIdle == CpIdle /\ HsIdle /\ AgInit /\ ChIdle

FnIdle ==
    /\ fn_pc = "idle"
    /\ fn_call = [fn |-> "none"]
    /\ fn_result = <<>>

\* RAGEnhancedAgent.__init__
RgIdle ==
    /\ rg_history = EmptyDict
    /\ rg_response = [response |-> ""]

ExtIdle == NjIdle /\ FsIdle /\ EeIdle /\ SeIdle /\ FnIdle /\ RgIdle

-----------------------------------------------------------------------------
(* Inputs and steps of hybrid_search *)

ArticleIds == 1..MaxArticleId

\* the relational store holds the articles 1..k
Stores == { 1..k : k \in (MaxArticleId - 1)..MaxArticleId }

Queries == { "weather tomorrow", "latest AI news", "Tesla and ai chips" }

SearchTypes == { "vector", "graph", "hybrid" }

\* the rows a similarity search returns, best match first; article_id 0
\* stands for a row without article_id
ChunkMatches(ids) ==
    [k \in 1..Len(ids) |->
        [article_id |-> ids[k], similarity |-> 100 - 10 * k, content |-> "chunk " \o Str(k)]]

ChunkResults(limit) ==
    { ChunkMatches(ids) : ids \in SeqsUpTo(0..MaxArticleId, Min(MaxChunks, limit * 2)) }

\* what get_entity_timeline returns; supabase_id 0 stands for None
Timelines ==
    { [k \in 1..Len(ids) |-> [supabase_id |-> ids[k]]] :
        ids \in SeqsUpTo(0..MaxArticleId, MaxEvents) }

\* line 208 with the test left out: the vector search runs whatever the
\* search type
WantsVector_always(search_type) == TRUE

\* line 208: if search_type in ["vector", "hybrid"]
WantsVector(search_type) == search_type \in {"vector", "hybrid"}

\* hybrid_search is called: lines 198-206
HsCall(query, search_type, limit, include_entities) ==
    /\ hs_pc = "idle"
    /\ hs_req' = [query |-> query, search_type |-> search_type, limit |-> limit,
                  include_entities |-> include_entities]
    /\ hs_results' = [articles |-> <<>>,
                      query_entities |-> IF include_entities THEN extract_entities(query) ELSE <<>>,
                      graph_results |-> <<>>]
    /\ hs_pc' = "vector"
    /\ hs_queried' = {}
    /\ UNCHANGED <<hs_store, hs_vector, not_hs>>

\* lines 208-215: await self.vector_search(...)
HsVector(has_embedding, chunk_matches) ==
    /\ hs_pc = "vector"
    /\ WantsVector(hs_req.search_type)
    /\ hs_vector' = vector_search(has_embedding, chunk_matches, hs_store, hs_req.limit)
    /\ hs_queried' = hs_queried \cup (IF has_embedding THEN {"vector"} ELSE {})
    /\ hs_results' = [hs_results EXCEPT !.articles = @ \o hs_vector']
    /\ hs_pc' = "graph"
    /\ UNCHANGED <<hs_req, hs_store, not_hs>>

HsSkipVector ==
    /\ hs_pc = "vector"
    /\ ~WantsVector(hs_req.search_type)
    /\ hs_pc' = "graph"
    /\ UNCHANGED <<hs_req, hs_store, hs_vector, hs_queried, hs_results, not_hs>>

\* the graph search started but not awaited: the next step begins while its
\* results are still to come
HsGraph_unawaited(timeline_of) ==
    /\ hs_pc = "graph"
    /\ hs_req.search_type \in {"graph", "hybrid"}
    /\ hs_results.query_entities # <<>>
    /\ hs_queried' = hs_queried \cup {"graph"}
    /\ hs_pc' = "fuse"
    /\ UNCHANGED <<hs_req, hs_store, hs_vector, hs_results, not_hs>>

\* lines 217-235: await self.graph_search(...) and the article of every
\* timeline event; timeline_of gives the timeline the graph store returns
\* for each query entity
HsGraph(timeline_of) ==
    /\ hs_pc = "graph"
    /\ hs_req.search_type \in {"graph", "hybrid"}
    /\ hs_results.query_entities # <<>>
    /\ LET entities == hs_results.query_entities
           graph_results ==
               [k \in 1..Len(entities) |->
                   [entity |-> entities[k], timeline |-> timeline_of[k],
                    related_entities |-> <<>>]]
       IN  hs_results' = [hs_results EXCEPT
                             !.graph_results = graph_results,
                             !.articles = @ \o GraphArticles(graph_results, hs_store)]
    /\ hs_queried' = hs_queried \cup {"graph"}
    /\ hs_pc' = "fuse"
    /\ UNCHANGED <<hs_req, hs_store, hs_vector, not_hs>>

HsSkipGraph ==
    /\ hs_pc = "graph"
    /\ ~(hs_req.search_type \in {"graph", "hybrid"} /\ hs_results.query_entities # <<>>)
    /\ hs_pc' = "fuse"
    /\ UNCHANGED <<hs_req, hs_store, hs_vector, hs_queried, hs_results, not_hs>>

\* lines 237-249
HsFuse ==
    /\ hs_pc = "fuse"
    /\ LET unique_articles == UniqueArticles(hs_results.articles)
       IN  hs_results' = [hs_results EXCEPT
                             !.articles = SubSeq(unique_articles, 1,
                                                 Min(hs_req.limit, Len(unique_articles)))]
    /\ hs_pc' = "done"
    /\ UNCHANGED <<hs_req, hs_store, hs_vector, hs_queried, not_hs>>

HybridInit ==
    /\ hs_pc = "idle"
    /\ hs_req = [query |-> "", search_type |-> "vector", limit |-> 1, include_entities |-> FALSE]
    /\ hs_store \in Stores
    /\ hs_vector = <<>>
    /\ hs_queried = {}
    /\ hs_results = [articles |-> <<>>, query_entities |-> <<>>, graph_results |-> <<>>]
    /\ CpIdle /\ AgInit /\ ChIdle /\ ExtIdle

HybridNext ==
    \/ \E query \in Queries, search_type \in SearchTypes,
          limit \in 1..MaxLimit, include_entities \in BOOLEAN :
            HsCall(query, search_type, limit, include_entities)
    \/ \E has_embedding \in BOOLEAN, chunk_matches \in ChunkResults(hs_req.limit) :
            HsVector(has_embedding, chunk_matches)
    \/ HsSkipVector
    \/ \E timeline_of \in [1..Len(hs_results.query_entities) -> Timelines] :
            HsGraph(timeline_of)
    \/ HsSkipGraph
    \/ HsFuse

SpecHybrid == HybridInit /\ [][HybridNext]_vars

(* vector_search applied to what the chunk store returns *)

VectorSearch ==
    /\ fn_pc = "called"
    /\ fn_call.fn = "vector_search"
    /\ fn_result' = vector_search(fn_call.has_embedding, fn_call.chunk_matches,
                                  fn_call.store, fn_call.limit)
    /\ fn_pc' = "returned"
    /\ UNCHANGED <<fn_call, not_fn>>

VectorInit ==
    /\ fn_pc = "called"
    /\ \E limit \in 1..MaxLimit :
          fn_call \in [fn : {"vector_search"}, has_embedding : BOOLEAN,
                       chunk_matches : ChunkResults(limit), store : Stores,
                       limit : {limit}]
    /\ fn_result = <<>>
    /\ CoreIdle /\ NjIdle /\ FsIdle /\ EeIdle /\ SeIdle /\ RgIdle

VectorNext == VectorSearch

SpecVector == VectorInit /\ [][VectorNext]_vars

-----------------------------------------------------------------------------
(* Inputs of the citation processor *)

Article(id, title, source) ==
    [id |-> id, title |-> title, source |-> source,
     url |-> IF source = None THEN None ELSE Some("https://example.com/" \o Str(id)),
     published_date |-> IF source = None THEN None ELSE Some("2024-01-15")]

\* source records as _extract_sources/_extract_enhanced_sources build them;
\* the second one has no source name (article.get("source") is None)
ArticlePool ==
    { Article(1, "A", Some("TechNews")),
      Article(2, "Bb", None),
      Article(3, "bb c", Some("Wire")) }

SourceLists == { q \in SeqsUpTo(ArticlePool, MaxSources) : IsInjective(q) }

Segments ==
    { "x. ", "p [Source: A] q", "[Sources: A, Zz]", "[Sources: Bb]",
      "[source: A]", "]", "[Source: " }

RECURSIVE Concat(_)
Concat(q) == IF q = <<>> THEN "" ELSE q[1] \o Concat(Tail(q))

ResponseTexts == { Concat(q) : q \in SeqsUpTo(Segments, MaxSegs) }


CiteInit ==
    /\ cp_pc = "ready"
    /\ cp_pass = 0
    /\ cp_text \in ResponseTexts
    /\ cp_sources \in SourceLists
    /\ cp_processed = ""
    /\ cp_citations = <<>>
    /\ uuid_ctr = 0
    /\ HsIdle /\ AgInit /\ ChIdle /\ ExtIdle

\* one call processed_text, citations = process_response_citations(text, sources)
ProcessCitations ==
    /\ cp_pc = "ready"
    /\ LET r == process_response_citations(cp_text, cp_sources, uuid_ctr)
       IN  /\ cp_pc' = IF r.raised THEN "raised" ELSE "done"
           /\ cp_processed' = IF r.raised THEN "" ELSE r.text
           /\ cp_citations' = IF r.raised THEN <<>> ELSE r.citations
           /\ uuid_ctr' = r.uuid
    /\ cp_pass' = cp_pass + 1
    /\ UNCHANGED <<cp_text, cp_sources, not_cp>>

\* the caller hands the text it got back to the processor again
Resubmit ==
    /\ cp_pc = "done"
    /\ cp_pass < MaxPasses
    /\ cp_text' = cp_processed
    /\ cp_pc' = "ready"
    /\ cp_processed' = ""
    /\ cp_citations' = <<>>
    /\ UNCHANGED <<cp_pass, cp_sources, uuid_ctr, not_cp>>

CiteNext == ProcessCitations \/ Resubmit

SpecCite == CiteInit /\ [][CiteNext]_vars

-----------------------------------------------------------------------------
(* Inputs and steps of process_message *)

ConvIds == {"c1", "c2"}

Messages == {"what is AI", "hello"}

\* articles as the retriever returns them; the second one comes from the
\* graph store alone and has neither source name nor content
RetrievedA ==
    Article(1, "A", Some("TechNews"))
        @@ [content |-> Some("AI chips"), similarity_score |-> Some(90)]

RetrievedBb ==
    Article(2, "Bb", None) @@ [content |-> None, similarity_score |-> None]

RetrievedLists == { <<>>, <<RetrievedBb, RetrievedA>> }

\* str(e) of the exceptions OpenRouterClient.chat_completion raises
ErrorTexts ==
    { "OpenRouter API request timeout",
      "OpenRouter API error: 401 - invalid key sk-live-1" }

GeneratedTexts == { "AI grows [Source: A].", "It rains [Sources: Bb, A]" }

LlmOutcomes ==
    { [raises |-> TRUE, text |-> e] : e \in ErrorTexts }
        \cup { [raises |-> FALSE, text |-> g] : g \in GeneratedTexts }

\* what the services outside the agent do during one call
AllEnvs ==
    [workflow_raises : BOOLEAN, analysis_raises : BOOLEAN, search_raises : BOOLEAN,
     articles : RetrievedLists, llm_available : BOOLEAN, llm : LlmOutcomes]

\* An outcome nobody asks for is left at one value: the stages of the
\* fallback run only after the workflow raised, a search that raises finds
\* nothing, and the language model is called only when it is configured and
\* articles were found.
Consulted(env) ==
    /\ ~env.workflow_raises => ~env.analysis_raises /\ ~env.search_raises
    /\ env.search_raises => env.articles = <<>>
    /\ (~env.llm_available \/ env.articles = <<>>) =>
            env.llm = [raises |-> TRUE, text |-> "OpenRouter API request timeout"]

Envs == { env \in AllEnvs : Consulted(env) }

\* process_message up to its first await: lines 45-55
PmBegin(k, message, conversation_id, use_hybrid_search) ==
    /\ ag_calls[k].pc # "awaiting"
    /\ \E b \in {Begun(Agent, message, conversation_id)} :
           /\ ag_history' = b.history
           /\ ag_log' = b.log
           /\ ag_clock' = b.clock
    /\ ag_calls' = [ag_calls EXCEPT ![k] =
                       [pc |-> "awaiting", message |-> message,
                        conversation_id |-> conversation_id,
                        use_hybrid_search |-> use_hybrid_search,
                        result |-> Returned("", <<>>, <<>>)]]
    /\ UNCHANGED <<ch_vars, not_ag>>

\* process_message from its awaits to its return: lines 57-114
PmFinish(k, env) ==
    /\ ag_calls[k].pc = "awaiting"
    /\ \E done \in {Completed(Agent, ag_calls[k], env)} :
           /\ ag_history' = done.history
           /\ ag_log' = done.log
           /\ ag_clock' = done.clock
           /\ ag_calls' = [ag_calls EXCEPT ![k].pc = "returned", ![k].result = done.result]
    /\ UNCHANGED <<ch_vars, not_ag>>

AgentInit == AgInit /\ ChIdle /\ CpIdle /\ HsIdle /\ ExtIdle

\* calls made one after the other on one agent
AgentNext ==
    \/ /\ NoCallInFlight
       /\ ag_clock < 2 * MaxTurns
       /\ \E message \in Messages, use_hybrid_search \in BOOLEAN :
             PmBegin(FreeCall, message, "c1", use_hybrid_search)
    \/ \E k \in Calls, env \in Envs : PmFinish(k, env)

SpecAgent == AgentInit /\ [][AgentNext]_vars

\* many turns on two conversations while no language model is configured
QuietEnvs ==
    { env \in Envs : /\ env.workflow_raises /\ ~env.analysis_raises /\ ~env.search_raises
                     /\ env.articles = <<>> /\ ~env.llm_available
                     /\ env.llm = [raises |-> TRUE, text |-> "OpenRouter API request timeout"] }

LongNext ==
    \/ /\ NoCallInFlight
       /\ ag_clock < 2 * MaxLongTurns
       /\ \E conversation_id \in ConvIds :
             PmBegin(FreeCall, "hello", conversation_id, FALSE)
    \/ \E k \in Calls, env \in QuietEnvs : PmFinish(k, env)

SpecAgentLong == AgentInit /\ [][LongNext]_vars

\* the turns that end with the refusal: a language model is configured and
\* the retrieval finds nothing, with or without the workflow
TurnEnvs ==
    { env \in Envs : /\ env.llm_available /\ env.articles = <<>>
                     /\ ~env.analysis_raises /\ ~env.search_raises }

\* the calls that are suspended at an await, by conversation id
AwaitingOn(conversation_id) ==
    { k \in Calls : ag_calls[k].pc = "awaiting"
                      /\ ag_calls[k].conversation_id = conversation_id }

\* calls for different conversation ids interleave at their awaits; the
\* calls of one conversation id come one after the other
DistinctNext ==
    \/ /\ ag_clock < 2 * MaxTurns
       /\ \E k \in Calls, message \in Messages, conversation_id \in ConvIds :
             /\ AwaitingOn(conversation_id) = {}
             /\ PmBegin(k, message, conversation_id, FALSE)
    \/ \E k \in Calls, env \in TurnEnvs : PmFinish(k, env)

SpecAgentDistinct == AgentInit /\ [][DistinctNext]_vars

\* calls for one conversation id interleave at their awaits
SameNext ==
    \/ /\ ag_clock < 2 * MaxTurns
       /\ \E k \in Calls, message \in Messages :
             PmBegin(k, message, "c1", FALSE)
    \/ \E k \in Calls, env \in TurnEnvs : PmFinish(k, env)

SpecAgentSame == AgentInit /\ [][SameNext]_vars

-----------------------------------------------------------------------------
(* The chat endpoint: routers/chat.py, dependencies.py *)

\* str(uuid.uuid4()) for the n-th value drawn
UuidStr(n) == Hex8(n) \o "-0000-4000-8000-000000000000"

ChatRequests ==
    [message : Messages, conversation_id : {None, Some("c1")},
     use_hybrid_search : {TRUE}]

ChatEnvs ==
    { env \in Envs : /\ ~env.analysis_raises /\ ~env.search_raises
                     /\ env.llm_available
                     /\ env.llm.text # "OpenRouter API error: 401 - invalid key sk-live-1" }

\* enhanced_chat_endpoint up to the first await of process_message.
\* get_langgraph_agent builds the LangGraphAgent of this request, whose
\* conversation_history starts empty (dependencies.py:35-39).
ChatBegin(request) ==
    /\ ch_pc # "processing"
    /\ LET generated == request.conversation_id = None
                            \/ TheValue(request.conversation_id) = ""
           conversation_id == IF generated THEN UuidStr(ch_uuid + 1)
                              ELSE TheValue(request.conversation_id)
           agent == [history |-> EmptyDict, log |-> EmptyDict, clock |-> ag_clock]
       IN  \E b \in {Begun(agent, request.message, conversation_id)} :
           /\ ch_conversation_id' = conversation_id
           /\ ch_uuid' = IF generated THEN ch_uuid + 1 ELSE ch_uuid
           /\ ag_history' = b.history
           /\ ag_log' = b.log
           /\ ag_clock' = b.clock
           /\ ag_calls' = [k \in Calls |->
                   IF k = 1
                   THEN [pc |-> "awaiting", message |-> request.message,
                         conversation_id |-> conversation_id,
                         use_hybrid_search |-> request.use_hybrid_search,
                         result |-> Returned("", <<>>, <<>>)]
                   ELSE IdleCall]
    /\ ch_pc' = "processing"
    /\ ch_request' = request
    /\ ch_response' = [status_code |-> 0]
    /\ UNCHANGED <<ch_turns, not_ag>>

\* the rest of enhanced_chat_endpoint: process_message returns, the citations
\* of its text are processed and the ChatResponse is built; an exception
\* becomes the HTTPException of lines 116-121
ChatFinish(env) ==
    /\ ch_pc = "processing"
    /\ ag_calls[1].pc = "awaiting"
    /\ \E done \in {Completed(Agent, ag_calls[1], env)} :
       \E response_data \in {done.result} :
       \E cited \in {process_response_citations(response_data.response,
                                                response_data.sources, ch_uuid)} :
       \E response \in
             {IF cited.raised
              THEN [status_code |-> 500,
                    detail |-> "Failed to process chat message: validation error for CitationInfo"]
              ELSE [status_code |-> 200, response |-> cited.text,
                    conversation_id |-> ch_conversation_id,
                    sources |-> response_data.sources, citations |-> cited.citations,
                    entities_mentioned |-> response_data.entities_mentioned]} :
           /\ ag_history' = done.history
           /\ ag_log' = done.log
           /\ ag_clock' = done.clock
           /\ ag_calls' = [ag_calls EXCEPT ![1].pc = "returned", ![1].result = done.result]
           /\ ch_uuid' = cited.uuid
           /\ ch_response' = response
           /\ ch_turns' = Append(ch_turns,
                  [conversation_id |-> ch_conversation_id, user |-> ch_request.message,
                   assistant |-> response_data.response,
                   status_code |-> response.status_code])
    /\ ch_pc' = "answered"
    /\ UNCHANGED <<ch_request, ch_conversation_id, not_ag>>

ChatInit == AgInit /\ ChIdle /\ CpIdle /\ HsIdle /\ ExtIdle

ChatNext ==
    \/ /\ Len(ch_turns) < MaxRequests
       /\ \E request \in ChatRequests : ChatBegin(request)
    \/ \E env \in ChatEnvs : ChatFinish(env)

SpecChat == ChatInit /\ [][ChatNext]_vars

(* One chat request, step by step: the endpoint, the retrieval of the
   fallback path, the generation and the citation processing *)

RequestMessages == Messages \cup { "AI history" }

Requests ==
    [message : RequestMessages, conversation_id : {None, Some("c1")},
     use_hybrid_search : {TRUE}]

\* _gather_context, lines 206-232: the search the intent asks for
GatherStrategy(query_analysis) ==
    IF query_analysis.intent = "timeline" /\ query_analysis.entities # <<>>
        THEN [search_type |-> "graph", limit |-> 10]
    ELSE IF query_analysis.intent \in {"search", "explanation"}
        THEN [search_type |-> "hybrid", limit |-> 8]
    ELSE [search_type |-> "vector", limit |-> 5]

\* the request is inside process_message, which has not returned
Retrieving == ch_pc = "processing" /\ ag_calls[1].pc = "awaiting"

\* the fallback path calls hybrid_search for the message of the request
RqSearch ==
    /\ Retrieving
    /\ \E strategy \in {GatherStrategy([intent |-> _classify_intent(ch_request.message),
                                         entities |-> extract_entities(ch_request.message)])} :
          HsCall(ch_request.message, strategy.search_type, strategy.limit, TRUE)

\* process_message returns the response of the generation: after the
\* workflow when no hybrid_search was made, after the fallback otherwise
RqGenerate(env) ==
    /\ ch_pc = "processing"
    /\ hs_pc \in {"idle", "done"}
    /\ env.workflow_raises <=> hs_pc = "done"
    /\ PmFinish(1, env)

\* chat.py lines 57-104: the citations of the returned text are processed
\* and the ChatResponse is built
RqCite ==
    /\ ch_pc = "processing"
    /\ ag_calls[1].pc = "returned"
    /\ \E response_data \in {ag_calls[1].result} :
       \E cited \in {process_response_citations(response_data.response,
                                                response_data.sources, ch_uuid)} :
           /\ cp_text' = response_data.response
           /\ cp_sources' = response_data.sources
           /\ cp_pc' = IF cited.raised THEN "raised" ELSE "done"
           /\ cp_processed' = IF cited.raised THEN "" ELSE cited.text
           /\ cp_citations' = IF cited.raised THEN <<>> ELSE cited.citations
           /\ cp_pass' = cp_pass + 1
           /\ uuid_ctr' = cited.uuid
           /\ ch_uuid' = cited.uuid
           /\ ch_response' =
                  IF cited.raised
                  THEN [status_code |-> 500,
                        detail |-> "Failed to process chat message: validation error for CitationInfo"]
                  ELSE [status_code |-> 200, response |-> cited.text,
                        conversation_id |-> ch_conversation_id,
                        sources |-> response_data.sources, citations |-> cited.citations,
                        entities_mentioned |-> response_data.entities_mentioned]
           /\ ch_turns' = Append(ch_turns,
                  [conversation_id |-> ch_conversation_id, user |-> ch_request.message,
                   assistant |-> response_data.response,
                   status_code |-> IF cited.raised THEN 500 ELSE 200])
    /\ ch_pc' = "answered"
    /\ UNCHANGED <<ch_request, ch_conversation_id, hs_vars, ag_vars, ext_vars>>

RequestInit ==
    /\ hs_pc = "idle"
    /\ hs_req = [query |-> "", search_type |-> "vector", limit |-> 1, include_entities |-> FALSE]
    /\ hs_store \in Stores
    /\ hs_vector = <<>>
    /\ hs_queried = {}
    /\ hs_results = [articles |-> <<>>, query_entities |-> <<>>, graph_results |-> <<>>]
    /\ CpIdle /\ AgInit /\ ChIdle /\ ExtIdle

RequestNext ==
    \/ /\ ch_pc = "idle"
       /\ \E request \in Requests : ChatBegin(request)
    \/ RqSearch
    \/ /\ Retrieving
       /\ \E has_embedding \in BOOLEAN, chunk_matches \in ChunkResults(hs_req.limit) :
             HsVector(has_embedding, chunk_matches)
    \/ /\ Retrieving
       /\ HsSkipVector
    \/ /\ Retrieving
       /\ \E timeline_of \in [1..Len(hs_results.query_entities) -> Timelines] :
             HsGraph(timeline_of)
    \/ /\ Retrieving
       /\ HsSkipGraph
    \/ /\ Retrieving
       /\ HsFuse
    \/ \E env \in ChatEnvs : RqGenerate(env)
    \/ RqCite

SpecRequest == RequestInit /\ [][RequestNext]_vars

-----------------------------------------------------------------------------
(* Neo4jClient: database/neo4j_client.py, and what its Cypher queries do *)

\* a node of the graph: an Article (key: str of its supabase_id) or an
\* Entity (key: its name)
ArticleNode(supabase_id) == [label |-> "Article", key |-> Str(supabase_id)]
EntityNode(name) == [label |-> "Entity", key |-> name]

\* (from)-[:type]->(to)
Rel(from, type, to) == [from |-> from, type |-> type, to |-> to]

Touches(rel, node) == rel.from = node \/ rel.to = node

OtherEnd(rel, node) == IF rel.from = node THEN rel.to ELSE rel.from

Range(q) == { q[i] : i \in 1..Len(q) }

\* the orders in which the rows S can leave a query
Perms(S) ==
    { q \in [1..Cardinality(S) -> S] : \A i, j \in 1..Cardinality(S) : q[i] = q[j] => i = j }

\* ORDER BY: the orders in which no row comes after a row it precedes;
\* rows the ordering does not tell apart leave in any order
OrderBy(S, Precedes(_, _)) ==
    { q \in Perms(S) : \A i, j \in 1..Len(q) : i < j => ~Precedes(q[j], q[i]) }

\* LIMIT $limit
Limit(q, limit) == SubSeq(q, 1, Min(limit, Len(q)))

\* the characters of an ISO date string, in code point order
ISO_CHARS == "+-.0123456789:TZ"

CodePoint(c) == CHOOSE k \in 1..Len(ISO_CHARS) : Char(ISO_CHARS, k) = c

\* a < b on strings, as ORDER BY compares the published_date properties
StrLess(a, b) ==
    LET diff == { i \in 1..Min(Len(a), Len(b)) : Char(a, i) # Char(b, i) }
    IN  IF diff = {} THEN Len(a) < Len(b)
        ELSE CodePoint(Char(a, SetMin(diff))) < CodePoint(Char(b, SetMin(diff)))

\* ORDER BY a.published_date DESC: a null sorts before every value
DateDesc(a, b) ==
    \/ a.published_date = None /\ b.published_date # None
    \/ /\ a.published_date # None /\ b.published_date # None
       /\ StrLess(TheValue(b.published_date), TheValue(a.published_date))

\* what a call returns, or that it raises
Return(value) == [raised |-> FALSE, value |-> value]
Raise == [raised |-> TRUE, value |-> <<>>]

\* except Exception: return []
Caught(outcomes) == { IF o.raised THEN Return(<<>>) ELSE o : o \in outcomes }

\* MATCH (a:Article)-[:MENTIONS]->(e:Entity) WHERE e.name = $entity_name
\* RETURN a.title, a.published_date, a.supabase_id, a.source
TimelineRows(graph, entity_name) ==
    { [title |-> a.title, published_date |-> a.published_date,
       supabase_id |-> a.supabase_id, source |-> a.source] :
        a \in { a \in graph.articles :
                    /\ Rel(ArticleNode(a.supabase_id), "MENTIONS", EntityNode(entity_name))
                           \in graph.edges
                    /\ \E e \in graph.entities : e.name = entity_name } }

\* the try block of get_entity_timeline; fault: the session raises
TimelineBody(driver, graph, fault, entity_name, limit) ==
    IF ~driver \/ fault THEN {Raise}
    ELSE { Return(Limit(q, limit)) : q \in OrderBy(TimelineRows(graph, entity_name), DateDesc) }

\* get_entity_timeline without its except branch
get_entity_timeline_uncaught(driver, graph, fault, entity_name, limit) ==
    TimelineBody(driver, graph, fault, entity_name, limit)

get_entity_timeline(driver, graph, fault, entity_name, limit) ==
    Caught(TimelineBody(driver, graph, fault, entity_name, limit))

\* the paths of n relationships that leave start, no relationship taken twice
RECURSIVE PathsOfLength(_, _, _)
PathsOfLength(graph, start, n) ==
    IF n = 0 THEN { [end |-> start, rels |-> <<>>] }
    ELSE { [end |-> OtherEnd(pr[2], pr[1].end), rels |-> Append(pr[1].rels, pr[2])] :
             pr \in { pr \in PathsOfLength(graph, start, n - 1) \X graph.edges :
                          Touches(pr[2], pr[1].end) /\ pr[2] \notin Range(pr[1].rels) } }

\* MATCH (start:Entity {name: $entity_name})
\* MATCH path = (start)-[*1..max_depth]-(related:Entity)
\* WHERE related.name <> start.name: one match for every path
RelatedMatches(graph, entity_name, max_depth) ==
    IF \A e \in graph.entities : e.name # entity_name THEN {}
    ELSE UNION { { [related |-> e, path |-> p] :
                     <<e, p>> \in { ep \in graph.entities
                                        \X PathsOfLength(graph, EntityNode(entity_name), d) :
                                    /\ ep[2].end = EntityNode(ep[1].name)
                                    /\ ep[1].name # entity_name } } :
                 d \in 1..max_depth }

\* RETURN DISTINCT related.name, related.type, length(path), count(*):
\* the matches are grouped by the three columns that are not aggregated
RelatedRows(graph, entity_name, max_depth) ==
    LET matches == RelatedMatches(graph, entity_name, max_depth)
    IN  { [name |-> m.related.name, type |-> m.related.type, distance |-> Len(m.path.rels),
           connection_strength |->
               Cardinality({ n \in matches : /\ n.related = m.related
                                             /\ Len(n.path.rels) = Len(m.path.rels) })] :
            m \in matches }

\* ORDER BY connection_strength DESC, distance ASC
StrengthDesc(a, b) ==
    \/ a.connection_strength > b.connection_strength
    \/ a.connection_strength = b.connection_strength /\ a.distance < b.distance

RelatedBody(driver, graph, fault, entity_name, max_depth, limit) ==
    IF ~driver \/ fault THEN {Raise}
    ELSE { Return(Limit(q, limit)) :
             q \in OrderBy(RelatedRows(graph, entity_name, max_depth), StrengthDesc) }

get_related_entities(driver, graph, fault, entity_name, max_depth, limit) ==
    Caught(RelatedBody(driver, graph, fault, entity_name, max_depth, limit))

\* MATCH (e:Entity) WHERE toLower(e.name) CONTAINS toLower($query)
\* [AND e.type = $entity_type]
\* RETURN e.name, e.type, size((e)-[:MENTIONS]-()) as mention_count
SearchRows(graph, query, entity_type) ==
    { [name |-> e.name, type |-> e.type,
       mention_count |-> Cardinality({ r \in graph.edges :
                             r.type = "MENTIONS" /\ Touches(r, EntityNode(e.name)) })] :
        e \in { e \in graph.entities :
                    /\ Contains(Lower(e.name), Lower(query))
                    /\ (entity_type # None /\ TheValue(entity_type) # "")
                           => e.type = entity_type } }

\* ORDER BY mention_count DESC
MentionsDesc(a, b) == a.mention_count > b.mention_count

SearchBody(driver, graph, fault, query, entity_type, limit) ==
    IF ~driver \/ fault THEN {Raise}
    ELSE { Return(Limit(q, limit)) :
             q \in OrderBy(SearchRows(graph, query, entity_type), MentionsDesc) }

search_entities_by_name(driver, graph, fault, query, entity_type, limit) ==
    Caught(SearchBody(driver, graph, fault, query, entity_type, limit))

-----------------------------------------------------------------------------
(* TimelineGenerator: services/timeline_generator.py *)

DigitOf(c) == CHOOSE k \in 0..9 : Char(DEC, k + 1) = c

\* the number written by the two digits of s at index i
Num2(s, i) == DigitOf(Char(s, i)) * 10 + DigitOf(Char(s, i + 1))

\* a datetime: the hours from the start of its month to its instant, and
\* whether it carries a UTC offset
DateTime(instant, aware) == [instant |-> instant, aware |-> aware]

\* datetime.fromisoformat(s.replace('Z', '+00:00')) for
\* s = YYYY-MM-DDTHH:MM:SS[Z|+HH:MM|-HH:MM] of the month the model looks at
FromIso(s) ==
    LET iso == IF Char(s, Len(s)) = "Z" THEN SubSeq(s, 1, Len(s) - 1) \o "+00:00" ELSE s
        local == Num2(iso, 9) * 24 + Num2(iso, 12)
    IN  IF Len(iso) = 19 THEN DateTime(local, FALSE)
        ELSE IF Char(iso, 20) = "+" THEN DateTime(local - Num2(iso, 21), TRUE)
        ELSE DateTime(local + Num2(iso, 21), TRUE)

\* datetime.now(): naive
Now == DateTime(4 * 24, FALSE)

\* timedelta(days=365) in hours
YEAR == 365 * 24

\* a <= b raises TypeError unless both or neither carry an offset
Comparable(a, b) == a.aware = b.aware

\* the test of lines 104-111 on one event of the graph store: the date is
\* there, parses, and start_date <= event_date <= end_date holds without
\* raising
InRange(event, start_date, end_date) ==
    /\ event.published_date # None
    /\ Comparable(start_date, FromIso(TheValue(event.published_date)))
    /\ start_date.instant <= FromIso(TheValue(event.published_date)).instant
    /\ Comparable(FromIso(TheValue(event.published_date)), end_date)
    /\ FromIso(TheValue(event.published_date)).instant <= end_date.instant

\* neo4j_timeline is what get_entity_timeline returned
_get_entity_timeline_events(neo4j_timeline, start_date, end_date) ==
    LET kept == SelectSeq(neo4j_timeline, LAMBDA event : InRange(event, start_date, end_date))
    IN  [i \in 1..Len(kept) |->
            [id |-> kept[i].supabase_id, title |-> kept[i].title,
             date |-> FromIso(TheValue(kept[i].published_date)),
             source |-> kept[i].source, supabase_id |-> kept[i].supabase_id]]

\* enriched: the event is built from the article of the relational store
\* and not by _create_basic_event
_enrich_timeline_events(events, store) ==
    [i \in 1..Len(events) |->
        [id |-> events[i].id, title |-> events[i].title, date |-> events[i].date,
         source |-> events[i].source,
         enriched |-> events[i].supabase_id # 0
                          /\ get_article_by_id(store, events[i].supabase_id) # None]]

\* events.sort(key=date, reverse=True): stable, the later date first
SortByDateDesc(events) ==
    [k \in 1..Len(events) |->
        events[CHOOSE i \in 1..Len(events) :
                   k - 1 = Cardinality({ j \in 1..Len(events) :
                               \/ events[j].date.instant > events[i].date.instant
                               \/ /\ events[j].date.instant = events[i].date.instant
                                  /\ j < i })]]

TimelineData(events, start_date, end_date, entity_name) ==
    [events |-> events, date_range |-> [start_date |-> start_date, end_date |-> end_date],
     entity_name |-> entity_name, total_events |-> Len(events)]

\* generate_timeline on what get_entity_timeline returned
TimelineOf(neo4j_timeline, store, entity_name, start_date, end_date) ==
    IF \E i, j \in 1..Len(neo4j_timeline) :
           /\ InRange(neo4j_timeline[i], start_date, end_date)
           /\ InRange(neo4j_timeline[j], start_date, end_date)
           /\ ~Comparable(FromIso(TheValue(neo4j_timeline[i].published_date)),
                          FromIso(TheValue(neo4j_timeline[j].published_date)))
    THEN TimelineData(<<>>, start_date, end_date, entity_name)
    ELSE TimelineData(
             SortByDateDesc(_enrich_timeline_events(
                 _get_entity_timeline_events(neo4j_timeline, start_date, end_date), store)),
             start_date, end_date, entity_name)

\* the end_date and the start_date generate_timeline works with
EndDate(end_date) == IF end_date = None THEN Now ELSE TheValue(end_date)

StartDate(start_date, end_date) ==
    IF start_date = None
    THEN DateTime(EndDate(end_date).instant - YEAR, EndDate(end_date).aware)
    ELSE TheValue(start_date)

generate_timeline(driver, graph, fault, store, entity_name, start_date, end_date, limit) ==
    { Return(TimelineOf(tl.value, store, entity_name,
                        StartDate(start_date, end_date), EndDate(end_date))) :
        tl \in get_entity_timeline(driver, graph, fault, entity_name, limit) }

-----------------------------------------------------------------------------
(* Inputs and calls of the graph query layer *)

\* published_date properties as ingestion writes them: datetime.isoformat()
\* of the date it parsed, with the offset the feed gave or none
DATE_EARLY_EAST == "2024-03-01T09:00:00+05:00"
DATE_LATE_UTC == "2024-03-01T08:00:00+00:00"
DATE_NEXT_DAY == "2024-03-02T08:00:00+00:00"
DATE_NAIVE == "2024-03-02T10:00:00"

ArticleNodes ==
    { [supabase_id |-> 1, title |-> "A", published_date |-> d, source |-> Some("TechNews")] :
        d \in {Some(DATE_EARLY_EAST), Some(DATE_NEXT_DAY)} }
    \cup
    { [supabase_id |-> 2, title |-> "Bb", published_date |-> d, source |-> None] :
        d \in {Some(DATE_LATE_UTC), Some(DATE_NAIVE), None} }

EntityNodes ==
    { [name |-> "AI", type |-> Some("CONCEPT")],
      [name |-> "Google", type |-> Some("ORG")],
      [name |-> "Tesla", type |-> None] }

MENTIONS_1_AI == Rel(ArticleNode(1), "MENTIONS", EntityNode("AI"))
MENTIONS_2_AI == Rel(ArticleNode(2), "MENTIONS", EntityNode("AI"))
MENTIONS_1_GOOGLE == Rel(ArticleNode(1), "MENTIONS", EntityNode("Google"))
AI_GOOGLE == Rel(EntityNode("AI"), "RELATED_TO", EntityNode("Google"))
GOOGLE_TESLA == Rel(EntityNode("Google"), "RELATED_TO", EntityNode("Tesla"))

\* the relationships of the graphs looked at
RelationshipSets ==
    { {},
      {MENTIONS_1_AI, MENTIONS_2_AI},
      {MENTIONS_1_AI, MENTIONS_2_AI, MENTIONS_1_GOOGLE},
      {MENTIONS_1_AI, MENTIONS_1_GOOGLE, AI_GOOGLE},
      {MENTIONS_2_AI, AI_GOOGLE, GOOGLE_TESLA},
      {MENTIONS_1_AI, MENTIONS_2_AI, MENTIONS_1_GOOGLE, AI_GOOGLE, GOOGLE_TESLA} }

\* the graphs ingestion can have built: one node for every supabase_id and
\* every entity name (MERGE), relationships between nodes that exist
Graphs ==
    { [articles |-> {t[1], t[2]}, entities |-> EntityNodes, edges |-> t[3]] :
        t \in { t \in ArticleNodes \X ArticleNodes \X RelationshipSets :
                   t[1].supabase_id = 1 /\ t[2].supabase_id = 2 } }

EntityNames == {"AI", "Google", "Nobody"}

NameQueries == {"", "ai", "GOO"}

EntityTypes == {None, Some("ORG")}

\* start_date and end_date of a timeline request
DateRanges ==
    { [start_date |-> None, end_date |-> None],
      [start_date |-> Some(DateTime(0, TRUE)), end_date |-> None],
      [start_date |-> Some(DateTime(0, TRUE)), end_date |-> Some(DateTime(3 * 24, TRUE))] }

\* get_entity_timeline(entity_name, limit)
GetEntityTimeline(entity_name, limit, fault) ==
    /\ nj_call' = [op |-> "get_entity_timeline", entity_name |-> entity_name,
                   limit |-> limit, fault |-> fault]
    /\ nj_result' \in get_entity_timeline(nj_driver, nj_graph, fault, entity_name, limit)
    /\ UNCHANGED <<nj_driver, nj_graph, not_nj>>

\* get_related_entities(entity_name, max_depth, limit)
GetRelatedEntities(entity_name, max_depth, limit, fault) ==
    /\ nj_call' = [op |-> "get_related_entities", entity_name |-> entity_name,
                   max_depth |-> max_depth, limit |-> limit, fault |-> fault]
    /\ nj_result' \in get_related_entities(nj_driver, nj_graph, fault, entity_name,
                                           max_depth, limit)
    /\ UNCHANGED <<nj_driver, nj_graph, not_nj>>

\* search_entities_by_name(query, entity_type, limit)
SearchEntitiesByName(query, entity_type, limit, fault) ==
    /\ nj_call' = [op |-> "search_entities_by_name", query |-> query,
                   entity_type |-> entity_type, limit |-> limit, fault |-> fault]
    /\ nj_result' \in search_entities_by_name(nj_driver, nj_graph, fault, query,
                                              entity_type, limit)
    /\ UNCHANGED <<nj_driver, nj_graph, not_nj>>

\* TimelineGenerator.generate_timeline(entity_name, start_date, end_date, limit);
\* store: the ids the relational store finds an article for
GenerateTimeline(entity_name, start_date, end_date, limit, store, fault) ==
    /\ nj_call' = [op |-> "generate_timeline", entity_name |-> entity_name,
                   start_date |-> start_date, end_date |-> end_date,
                   limit |-> limit, fault |-> fault]
    /\ nj_result' \in generate_timeline(nj_driver, nj_graph, fault, store, entity_name,
                                        start_date, end_date, limit)
    /\ UNCHANGED <<nj_driver, nj_graph, not_nj>>

\* Neo4jClient.__init__: the driver is there when the credentials are set
\* and the test query answers
GraphInit ==
    /\ nj_driver \in BOOLEAN
    /\ nj_graph \in Graphs
    /\ nj_call = [op |-> "none"]
    /\ nj_result = Return(<<>>)
    /\ CoreIdle /\ FsIdle /\ EeIdle /\ SeIdle /\ FnIdle /\ RgIdle

GraphNext ==
    \/ \E entity_name \in EntityNames, limit \in 1..MaxLimit, fault \in BOOLEAN :
           GetEntityTimeline(entity_name, limit, fault)
    \/ \E entity_name \in EntityNames, max_depth \in 1..MaxDepth,
          limit \in 1..MaxLimit, fault \in BOOLEAN :
           GetRelatedEntities(entity_name, max_depth, limit, fault)
    \/ \E query \in NameQueries, entity_type \in EntityTypes,
          limit \in 1..MaxLimit, fault \in BOOLEAN :
           SearchEntitiesByName(query, entity_type, limit, fault)
    \/ \E entity_name \in EntityNames, range \in DateRanges,
          limit \in 1..MaxLimit, store \in {{}, {1}}, fault \in BOOLEAN :
           GenerateTimeline(entity_name, range.start_date, range.end_date, limit, store, fault)

SpecGraph == GraphInit /\ [][GraphNext]_vars

-----------------------------------------------------------------------------
(* HybridRetriever.find_similar_articles *)

\* find_similar_articles with the reference article left in the results
find_similar_articles_unfiltered(store, article_id, limit, has_embedding, chunk_matches) ==
    IF get_article_by_id(store, article_id) = None THEN <<>>
    ELSE Limit(vector_search(has_embedding, chunk_matches, store, limit + 1), limit)

\* chunk_matches is what the similarity search finds for the title and the
\* content of the reference article
find_similar_articles(store, article_id, limit, has_embedding, chunk_matches) ==
    IF get_article_by_id(store, article_id) = None THEN <<>>
    ELSE Limit(SelectSeq(vector_search(has_embedding, chunk_matches, store, limit + 1),
                         LAMBDA article : article.id # article_id),
               limit)

SimilarStores == { 1..k : k \in (MaxSimilarId - 1)..MaxSimilarId }

\* the rows search_chunks_by_similarity returns for (limit + 1) * 2
SimilarChunks(limit) ==
    { ChunkMatches(ids) : ids \in SeqsUpTo(0..MaxSimilarId, Min(MaxChunks, (limit + 1) * 2)) }

SimilarCalls ==
    UNION { [article_id : 1..MaxSimilarId, limit : {limit}, has_embedding : BOOLEAN,
             chunk_matches : SimilarChunks(limit)] : limit \in 1..MaxLimit }

\* the call is made and runs to its return
FindSimilarArticles ==
    /\ fs_pc = "called"
    /\ fs_result' = find_similar_articles(fs_store, fs_call.article_id, fs_call.limit,
                                          fs_call.has_embedding, fs_call.chunk_matches)
    /\ fs_pc' = "returned"
    /\ UNCHANGED <<fs_store, fs_call, not_fs>>

SimilarInit ==
    /\ fs_pc = "called"
    /\ fs_store \in SimilarStores
    /\ fs_call \in SimilarCalls
    /\ fs_result = <<>>
    /\ CoreIdle /\ NjIdle /\ EeIdle /\ SeIdle /\ FnIdle /\ RgIdle

SimilarNext == FindSimilarArticles

SpecSimilar == SimilarInit /\ [][SimilarNext]_vars

-----------------------------------------------------------------------------
(* Inputs and the call of extract_entities *)

Words == << "tesla", "AI", "Google", "rain", "climate", "META", "economy" >>

\* the words of a text, in their order: up to MaxWords different words, or
\* all the words from one of them on and around
WordLists ==
    { q \in SeqsUpTo(1..Len(Words), MaxWords) : IsInjective(q) }
        \cup { [k \in 1..Len(Words) |-> ((r + k - 1) % Len(Words)) + 1] : r \in 1..Len(Words) }

Texts == { Join([k \in 1..Len(q) |-> Words[q[k]]], " ") : q \in WordLists }

\* the call is made and runs to its return
ExtractEntities ==
    /\ ee_pc = "called"
    /\ ee_entities' = extract_entities(ee_text)
    /\ ee_pc' = "returned"
    /\ UNCHANGED <<ee_text, not_ee>>

EntitiesInit ==
    /\ ee_pc = "called"
    /\ ee_text \in Texts
    /\ ee_entities = <<>>
    /\ CoreIdle /\ NjIdle /\ FsIdle /\ SeIdle /\ FnIdle /\ RgIdle

EntitiesNext == ExtractEntities

SpecEntities == EntitiesInit /\ [][EntitiesNext]_vars

-----------------------------------------------------------------------------
(* HybridRetriever.search_entities *)

\* how a branch of the gather ended: with the list it returned or with an
\* exception
Done(value) == [state |-> "returned", value |-> value]
Failed == [state |-> "raised", value |-> <<>>]

\* lines 287-290: an exception stands for no entity
Gathered(branch) == IF branch.state = "raised" THEN <<>> ELSE branch.value

\* the loop of lines 296-300
RECURSIVE MergeLoop(_, _, _)
MergeLoop(entities, all_entities, seen_names) ==
    IF entities = <<>> THEN all_entities
    ELSE LET entity == entities[1]
             name == entity.name
         IN  IF name # "" /\ name \notin seen_names
             THEN MergeLoop(Tail(entities), Append(all_entities, entity),
                            seen_names \cup {name})
             ELSE MergeLoop(Tail(entities), all_entities, seen_names)

\* the join without lines 287-290: the sum of a list and an exception
\* raises, and the except branch of line 304 returns []
JoinedUnhandled(supabase_entities, neo4j_entities, limit) ==
    IF supabase_entities.state = "raised" \/ neo4j_entities.state = "raised" THEN <<>>
    ELSE Limit(MergeLoop(supabase_entities.value \o neo4j_entities.value, <<>>, {}), limit)

\* lines 286-302: what search_entities makes of the two values gather returned
Joined(supabase_entities, neo4j_entities, limit) ==
    Limit(MergeLoop(Gathered(supabase_entities) \o Gathered(neo4j_entities), <<>>, {}), limit)

\* rows of the entities table and rows of the graph query
SupabaseRows ==
    { [name |-> "AI", type |-> Some("CONCEPT"), id |-> 1],
      [name |-> "Google", type |-> Some("ORG"), id |-> 2] }

Neo4jRows ==
    { [name |-> "AI", type |-> Some("CONCEPT"), mention_count |-> 2],
      [name |-> "Tesla", type |-> None, mention_count |-> 0] }

\* how a branch asked for limit rows can end
BranchOutcomes(rows, limit) ==
    {Failed} \cup { Done(q) : q \in { q \in SeqsUpTo(rows, Min(limit, MaxRows)) : IsInjective(q) } }

\* search_entities is called and hands the two searches to asyncio.gather:
\* lines 276-283
SeCall(query, entity_type, limit) ==
    /\ se_pc \in {"idle", "returned"}
    /\ se_req' = [query |-> query, entity_type |-> entity_type, limit |-> limit]
    /\ se_supabase' = Pending
    /\ se_neo4j' = Pending
    /\ se_result' = <<>>
    /\ se_pc' = "gathering"
    /\ UNCHANGED not_se

\* self.supabase.search_entities(query, entity_type, limit) ends
SeSupabase(outcome) ==
    /\ se_pc = "gathering"
    /\ se_supabase = Pending
    /\ se_supabase' = outcome
    /\ UNCHANGED <<se_pc, se_req, se_neo4j, se_result, not_se>>

\* self.neo4j_client.search_entities_by_name(query, entity_type, limit) ends
SeNeo4j(outcome) ==
    /\ se_pc = "gathering"
    /\ se_neo4j = Pending
    /\ se_neo4j' = outcome
    /\ UNCHANGED <<se_pc, se_req, se_supabase, se_result, not_se>>

\* both branches have ended: gather returns and search_entities runs to its
\* return
SeJoin ==
    /\ se_pc = "gathering"
    /\ se_supabase # Pending
    /\ se_neo4j # Pending
    /\ se_result' = Joined(se_supabase, se_neo4j, se_req.limit)
    /\ se_pc' = "returned"
    /\ UNCHANGED <<se_req, se_supabase, se_neo4j, not_se>>

SearchInit == SeIdle /\ CoreIdle /\ NjIdle /\ FsIdle /\ EeIdle /\ FnIdle /\ RgIdle

SearchNext ==
    \/ \E query \in NameQueries, entity_type \in EntityTypes, limit \in 1..MaxLimit :
           SeCall(query, entity_type, limit)
    \/ \E outcome \in BranchOutcomes(SupabaseRows, se_req.limit) : SeSupabase(outcome)
    \/ \E outcome \in BranchOutcomes(Neo4jRows, se_req.limit) : SeNeo4j(outcome)
    \/ SeJoin

SpecSearch == SearchInit /\ [][SearchNext]_vars

-----------------------------------------------------------------------------
(* RAGEnhancedAgent.process_message_with_rag_details: rag_enhanced_agent.py *)

\* what the steps of one call do: they return a response, or one of them
\* raises and the except branch of lines 146-153 answers
RagOutcomes ==
    { [raised |-> FALSE, response |-> "It rains.", rag_used |-> FALSE],
      [raised |-> TRUE, response |-> "I apologize, but I encountered an error: timeout",
       rag_used |-> FALSE] }

\* the messages all the histories hold
RECURSIVE RagMessages(_, _)
RagMessages(history, keys) ==
    IF keys = {} THEN 0
    ELSE LET k == CHOOSE k \in keys : TRUE
         IN  Len(history[k]) + RagMessages(history, keys \ {k})

\* the calls made so far: every call appends its user message
RagCalls ==
    Cardinality({ <<c, i>> \in (DOMAIN rg_history) \X (1..(2 * MaxRagCalls)) :
                    i <= Len(rg_history[c]) /\ rg_history[c][i].role = "user" })

RagAssistantMessage(outcome, ts) ==
    [role |-> "assistant", content |-> outcome.response, timestamp |-> ts,
     rag_used |-> outcome.rag_used]

\* one call from line 46 to its return
ProcessMessageWithRagDetails(message, conversation_id, outcome) ==
    /\ RagCalls < MaxRagCalls
    /\ \E ts \in {RagMessages(rg_history, DOMAIN rg_history)} :
         \E with_user \in {DictAppend(rg_history, conversation_id, UserMessage(message, ts))} :
           rg_history' =
               IF outcome.raised THEN with_user
               ELSE DictAppend(with_user, conversation_id,
                               RagAssistantMessage(outcome, ts + 1))
    /\ rg_response' = [response |-> outcome.response]
    /\ UNCHANGED not_rg

RagInit == CoreIdle /\ NjIdle /\ FsIdle /\ EeIdle /\ SeIdle /\ FnIdle /\ RgIdle

\* calls made one after the other on one conversation id
RagNext ==
    \E outcome \in RagOutcomes :
        ProcessMessageWithRagDetails("hello", "c1", outcome)

SpecRag == RagInit /\ [][RagNext]_vars

-----------------------------------------------------------------------------
(* The two intent classifiers applied to one message *)

IntentPhrases ==
    { "timeline", "History", "evolution", "over time", "summary", "SUMMARIZE",
      "flashcard", "brief", "search", "find", "look for", "Show me", "explain",
      "What is", "tell me about", "related", "connected", "similar", "hello", "AI" }

IntentMessages == { a \o " " \o b : a, b \in IntentPhrases }

ClassifyIntent ==
    /\ fn_pc = "called"
    /\ fn_call.fn = "_classify_intent"
    /\ fn_result' = [agent |-> _classify_intent(fn_call.message),
                     node |-> NodeIntent(fn_call.message)]
    /\ fn_pc' = "returned"
    /\ UNCHANGED <<fn_call, not_fn>>

IntentInit ==
    /\ fn_pc = "called"
    /\ fn_call \in [fn : {"_classify_intent"}, message : IntentMessages]
    /\ fn_result = <<>>
    /\ CoreIdle /\ NjIdle /\ FsIdle /\ EeIdle /\ SeIdle /\ RgIdle

IntentNext == ClassifyIntent

SpecIntent == IntentInit /\ [][IntentNext]_vars

-----------------------------------------------------------------------------
(* Resolving a cited name: _create_article_map and _find_matching_article *)

LONG_TITLE == "The history of AI chips in data centres"

TitlePool == << "ai", "AI", "AI news", LONG_TITLE >>

CitedNames == { "ai", "AI", "Ai", "news", "Zz", "The history of AI chips in dat..." }

\* the source articles of a response: different articles, in some order
TitledLists ==
    { [k \in 1..Len(q) |-> Article(q[k], TitlePool[q[k]], Some("Wire"))] :
        q \in { q \in SeqsUpTo(1..Len(TitlePool), MaxSources) : IsInjective(q) } }

\* the name is looked up in the map of the articles
FindMatchingArticle ==
    /\ fn_pc = "called"
    /\ fn_call.fn = "_find_matching_article"
    /\ fn_result' = _find_matching_article(fn_call.source_name,
                                            _create_article_map(fn_call.articles))
    /\ fn_pc' = "returned"
    /\ UNCHANGED <<fn_call, not_fn>>

ResolveInit ==
    /\ fn_pc = "called"
    /\ fn_call \in [fn : {"_find_matching_article"}, source_name : CitedNames,
                     articles : TitledLists]
    /\ fn_result = <<>>
    /\ CoreIdle /\ NjIdle /\ FsIdle /\ EeIdle /\ SeIdle /\ RgIdle

ResolveNext == FindMatchingArticle

SpecResolve == ResolveInit /\ [][ResolveNext]_vars

-----------------------------------------------------------------------------
(* Properties of the citation processor *)

SPAN_OPEN == "<span class=\"citation-link\""
SPAN_CLOSE == "</span>"

\* 1-based index of the first occurrence of p in s at or after i, else 0
FindFirst(s, p, i) ==
    LET occ == { j \in i..Len(s) : StartsWithAt(s, j, p) }
    IN  IF occ = {} THEN 0 ELSE SetMin(occ)

RECURSIVE CountFrom(_, _, _)
CountFrom(s, p, i) ==
    LET f == FindFirst(s, p, i)
    IN  IF f = 0 THEN 0 ELSE 1 + CountFrom(s, p, f + Len(p))

CountOcc(s, p) == CountFrom(s, p, 1)

\* out is orig with the k-th and later markers each replaced by one
\* <span class="citation-link" ...>...</span> element, read from index p
\* of out, and every character between and around the markers kept
RECURSIVE FrameFrom(_, _, _, _, _)
FrameFrom(orig, matches, k, p, out) ==
    LET from == IF k = 0 THEN 0 ELSE matches[k].end
        to == IF k = Len(matches) THEN Len(orig) ELSE matches[k + 1].start
        gap == PySlice(orig, from, to)
        q == p + Len(gap)
    IN  /\ StartsWithAt(out, p, gap)
        /\ IF k = Len(matches) THEN q = Len(out) + 1
           ELSE /\ StartsWithAt(out, q, SPAN_OPEN)
                /\ LET c == FindFirst(out, SPAN_CLOSE, q)
                   IN  /\ c # 0
                       /\ FrameFrom(orig, matches, k + 1, c + Len(SPAN_CLOSE), out)

Markers == FindIter(cp_text)

\* C2: when process_response_citations returns, the rewritten text is the
\* response text with each citation marker replaced by one annotated span
\* and every character outside the marker spans unchanged, in order
C2_OutsideMarkersUnchanged ==
    cp_pc = "done" => FrameFrom(cp_text, Markers, 0, 1, cp_processed)

\* two markers with text before, between and after them were rewritten
C2_Witness ==
    /\ cp_pc = "done"
    /\ LET ms == Markers
       IN  /\ Len(ms) = 2
           /\ ms[1].start > 0
           /\ ms[2].start > ms[1].end
           /\ ms[2].end < Len(cp_text)

\* C3 (as claimed): the returned Citation records are in ascending order of
\* the start offset of their markers
C3_AscendingMarkerOrder ==
    cp_pc = "done" =>
        \A i, j \in 1..Len(cp_citations) :
            i < j => cp_citations[i].position_in_text.start
                        <= cp_citations[j].position_in_text.start

\* C4 (as claimed): a second pass over the produced text finds no marker,
\* returns the text unchanged and adds no Citation record
C4_SecondPassNoOp ==
    (cp_pc = "done" /\ cp_pass = 2) =>
        /\ Markers = <<>>
        /\ cp_processed = cp_text
        /\ cp_citations = <<>>

\* a cited name resolves when some provided article's title equals it,
\* equals it up to letter case, or contains it or is contained in it
Resolvable(name) == \E i \in 1..Len(cp_sources) : PartialMatch(name, cp_sources[i].title)

NamesOf(m) == LET parts == Split(m.group, ",") IN [i \in 1..Len(parts) |-> Strip(parts[i])]

ResolvedCount(m) == Cardinality({ i \in 1..Len(NamesOf(m)) : Resolvable(NamesOf(m)[i]) })

RECURSIVE SumResolved(_)
SumResolved(ms) == IF ms = <<>> THEN 0 ELSE ResolvedCount(ms[1]) + SumResolved(Tail(ms))

SpansAndRecordsMatch ==
    /\ CountOcc(cp_processed, SPAN_OPEN) - CountOcc(cp_text, SPAN_OPEN) = Len(Markers)
    /\ Len(cp_citations) = SumResolved(Markers)

\* C5 (as claimed): a call replaces every marker by one annotated span and
\* yields one Citation record per resolved name
C5_SpanPerMarkerRecordPerName ==
    (cp_pass >= 1 /\ cp_pc # "ready") => (cp_pc = "done" /\ SpansAndRecordsMatch)

\* when the call returns, the counts do agree
C5_CountsWhenReturned == cp_pc = "done" => SpansAndRecordsMatch

\* the span of citation c is the span of a marker of ms that names it
SpanOfOwnMarker(c, ms) ==
    \E k \in 1..Len(ms) :
        /\ c.position_in_text = [start |-> ms[k].start, end |-> ms[k].end]
        /\ \E i \in 1..Len(NamesOf(ms[k])) : NamesOf(ms[k])[i] = c.source_name

\* the slice of the text at the span is a marker: "[Source" ... first "]"
SliceIsMarker(c) ==
    LET sl == PySlice(cp_text, c.position_in_text.start, c.position_in_text.end)
    IN  /\ StartsWithAt(sl, 1, "[Source")
        /\ FirstClose(sl, 1) = Len(sl)

\* C6: every returned Citation carries the start and end offsets of its own
\* marker in the response text, and each marker's span is carried by exactly
\* the Citations made from its names
C6_SpanIsOwnMarker ==
    cp_pc = "done" =>
        LET ms == Markers
        IN  /\ \A i \in 1..Len(cp_citations) :
                  SpanOfOwnMarker(cp_citations[i], ms) /\ SliceIsMarker(cp_citations[i])
            /\ \A k \in 1..Len(ms) :
                  Cardinality({ i \in 1..Len(cp_citations) :
                                  cp_citations[i].position_in_text.start = ms[k].start })
                    = ResolvedCount(ms[k])

\* two markers with different names each produced a Citation
C6_Witness ==
    /\ cp_pc = "done"
    /\ Len(cp_citations) >= 2
    /\ \E i, j \in 1..Len(cp_citations) :
          /\ cp_citations[i].position_in_text.start # cp_citations[j].position_in_text.start
          /\ cp_citations[i].source_name # cp_citations[j].source_name

-----------------------------------------------------------------------------
(* Properties of hybrid_search *)

IdsOf(articles) == { articles[i].id : i \in 1..Len(articles) }

TimelineIds ==
    UNION { { hs_results.graph_results[k].timeline[e].supabase_id :
                e \in 1..Len(hs_results.graph_results[k].timeline) } :
            k \in 1..Len(hs_results.graph_results) }

\* C1: in a hybrid search, an article that vector search returned and a
\* graph timeline event also references is in the fused list once, as the
\* record vector search built (the chunk's similarity score and snippet, no
\* from_graph flag)
C1_VectorRecordWins ==
    (hs_pc = "done" /\ hs_req.search_type = "hybrid") =>
        \A v \in 1..Len(hs_vector) :
            hs_vector[v].id \in TimelineIds =>
                /\ Cardinality({ i \in 1..Len(hs_results.articles) :
                                   hs_results.articles[i].id = hs_vector[v].id }) = 1
                /\ \E i \in 1..Len(hs_results.articles) :
                      /\ hs_results.articles[i] = hs_vector[v]
                      /\ hs_results.articles[i].similarity_score # None
                      /\ hs_results.articles[i].snippet # None
                      /\ hs_results.articles[i].from_graph = None

\* a hybrid search finished in which vector search and a timeline event led
\* to the same stored article
C1_Witness ==
    /\ hs_pc = "done"
    /\ hs_req.search_type = "hybrid"
    /\ \E v \in 1..Len(hs_vector) :
          hs_vector[v].id \in TimelineIds /\ hs_vector[v].id \in hs_store

-----------------------------------------------------------------------------
(* Properties of the agent and of the chat endpoint *)

\* the last n entries of q, all of q when it has fewer
LastOf(q, n) == SubSeq(q, Len(q) - Min(n, Len(q)) + 1, Len(q))

\* C7: after every completed process_message call, each conversation's
\* history has at most 20 entries and is made of the most recently appended
\* messages of that conversation, in the order they were appended: all of
\* them while there are at most 20, the last 20 once older ones were evicted.
C7_HistoryKeepsLast20 ==
    NoCallInFlight =>
        \A c \in DOMAIN ag_history :
            /\ Len(ag_history[c]) <= HistoryCap
            /\ ag_history[c] = LastOf(ag_log[c], HistoryCap)

\* a call has completed on a conversation that lost its oldest messages
C7_Witness ==
    /\ NoCallInFlight
    /\ \E k \in Calls :
          /\ ag_calls[k].pc = "returned"
          /\ Len(ag_log[ag_calls[k].conversation_id]) > HistoryCap
          /\ Len(ag_history[ag_calls[k].conversation_id]) = HistoryCap

\* C8: while the chat endpoint serves a request on conversation id c, the
\* history of c holds the user and the assistant message of every earlier
\* request on c that was answered (so it is not empty at the start of the
\* second turn).
C8_LaterRequestFindsEarlierTurn ==
    ch_pc = "processing" =>
        \A i \in 1..Len(ch_turns) :
            (ch_turns[i].conversation_id = ch_conversation_id
                /\ ch_turns[i].status_code = 200) =>
                LET h == ag_history[ch_conversation_id]
                IN  /\ Len(h) > 1
                    /\ \E j \in 1..(Len(h) - 1) :
                          /\ h[j].role = "user"
                          /\ h[j].content = ch_turns[i].user
                          /\ h[j + 1].role = "assistant"
                          /\ h[j + 1].content = ch_turns[i].assistant

\* C9: a process_message call that has completed has returned, not raised,
\* whichever stages failed: what it returned has a response text, sources and
\* entities_mentioned, and the call was processed normally, first calls and
\* following ones alike: the conversation's history ends with the call's user
\* message and the assistant message carrying the returned text, and every
\* call so far has left its two messages.
C9_AlwaysReturnsAResponse ==
    \A k \in Calls :
        ag_calls[k].pc = "returned" =>
            LET call == ag_calls[k]
                h == ag_history[call.conversation_id]
                n == Len(h)
            IN  /\ ~call.result.raised
                /\ {"response", "sources", "entities_mentioned"} \subseteq DOMAIN call.result
                /\ call.result.response # ""
                /\ n >= 2
                /\ h[n - 1].role = "user" /\ h[n - 1].content = call.message
                /\ h[n].role = "assistant" /\ h[n].content = call.result.response
                /\ h[n].sources = call.result.sources
                /\ NoCallInFlight => Len(ag_log[call.conversation_id]) = ag_clock

\* the second call on a conversation has returned after the workflow, the
\* query analysis and the retrieval all failed in it, and the first call had
\* met a failing language model
C9_Witness ==
    \E k \in Calls :
        /\ ag_calls[k].pc = "returned"
        /\ ag_calls[k].result.failed = {"workflow", "analysis", "retrieval"}
        /\ LET h == ag_history[ag_calls[k].conversation_id]
           IN  /\ Len(h) = 4
               /\ StartsWithAt(h[2].content, 1, GENERATION_ERROR_PREFIX)

\* C10: when the language-model call raised during a process_message call,
\* the text of the exception does not appear in the response text returned.
C10_NoErrorDetailInResponse ==
    \A k \in Calls :
        (ag_calls[k].pc = "returned" /\ "generation" \in ag_calls[k].result.failed) =>
            ~Contains(ag_calls[k].result.response, ag_calls[k].result.error)

\* C11: when the retrieval of a process_message call yields no article, the
\* response text is the fixed insufficient-information sentence, the sources
\* are empty and the entities are those extracted from the query, whatever
\* the other backends do.
C11_RefusalWhenNothingRetrieved ==
    \A k \in Calls :
        (ag_calls[k].pc = "returned" /\ ag_calls[k].result.retrieved = 0) =>
            /\ ag_calls[k].result.response = NO_SOURCES_RESPONSE
            /\ ag_calls[k].result.sources = <<>>
            /\ ag_calls[k].result.entities_mentioned = extract_entities(ag_calls[k].message)

\* the same, for the calls in which the language model is configured and
\* the query analysis did not fail
C11_RefusalWhenModelConfigured ==
    \A k \in Calls :
        (/\ ag_calls[k].pc = "returned" /\ ag_calls[k].result.retrieved = 0
         /\ ag_calls[k].result.response # CONFIG_RESPONSE
         /\ "analysis" \notin ag_calls[k].result.failed) =>
            /\ ag_calls[k].result.response = NO_SOURCES_RESPONSE
            /\ ag_calls[k].result.sources = <<>>
            /\ ag_calls[k].result.entities_mentioned = extract_entities(ag_calls[k].message)

\* C12: every chat request that has been answered got status 200 and a body
\* with response, conversation_id, sources and entities_mentioned, whatever
\* source records were retrieved and whatever text was generated.
C12_ChatAnswersWellFormed ==
    ch_pc = "answered" =>
        /\ ch_response.status_code = 200
        /\ {"response", "conversation_id", "sources", "entities_mentioned"}
               \subseteq DOMAIN ch_response

\* the same, for the answers whose sources all have a source name
C12_WellFormedWhenSourcesNamed ==
    (/\ ch_pc = "answered"
     /\ \A i \in 1..Len(ag_calls[1].result.sources) :
           ag_calls[1].result.sources[i].source # None) =>
        /\ ch_response.status_code = 200
        /\ {"response", "conversation_id", "sources", "entities_mentioned"}
               \subseteq DOMAIN ch_response

-----------------------------------------------------------------------------
(* Properties of the graph query layer *)

GraphReads == {"get_related_entities", "get_entity_timeline", "search_entities_by_name"}

\* C13: when the graph store is unavailable (no driver) or raises during the
\* call, get_related_entities, get_entity_timeline and
\* search_entities_by_name return the empty list and do not raise.
C13_EmptyListWhenStoreFails ==
    (nj_call.op \in GraphReads /\ (~nj_driver \/ nj_call.fault)) =>
        nj_result = Return(<<>>)

\* a store that holds related entities raises during the traversal
C13_Witness ==
    /\ nj_call.op = "get_related_entities"
    /\ nj_driver /\ nj_call.fault
    /\ RelatedRows(nj_graph, nj_call.entity_name, nj_call.max_depth) # {}
    /\ nj_result = Return(<<>>)

\* the instant of the publication date of a row of the graph store
InstantOf(row) == FromIso(TheValue(row.published_date)).instant

\* the articles that mention the entity all carry a date with an offset, and
\* no two of them the same instant
DistinctDates(graph, entity_name) ==
    \A a, b \in TimelineRows(graph, entity_name) :
        /\ a.published_date # None
        /\ FromIso(TheValue(a.published_date)).aware
        /\ a # b => InstantOf(a) # InstantOf(b)

\* q holds the limit latest of the rows, the latest first
NewestFirst(q, rows, limit) ==
    /\ Len(q) = Min(limit, Cardinality(rows))
    /\ \A i, j \in 1..Len(q) : i < j => InstantOf(q[i]) > InstantOf(q[j])
    /\ \A r \in rows \ Range(q) : \A i \in 1..Len(q) : InstantOf(q[i]) > InstantOf(r)

\* C14: for events with pairwise distinct publication dates
\* get_entity_timeline returns the limit latest events in strictly
\* descending date order, and generate_timeline, asked for a range that
\* holds them all, returns these same events in this order.
C14_TimelineNewestFirst ==
    (/\ nj_call.op \in {"get_entity_timeline", "generate_timeline"}
     /\ nj_driver /\ ~nj_call.fault
     /\ DistinctDates(nj_graph, nj_call.entity_name)) =>
        IF nj_call.op = "get_entity_timeline"
        THEN NewestFirst(nj_result.value,
                         TimelineRows(nj_graph, nj_call.entity_name), nj_call.limit)
        ELSE (nj_call.start_date # None /\ nj_call.end_date # None) =>
                 /\ Len(nj_result.value.events)
                        = Min(nj_call.limit,
                              Cardinality(TimelineRows(nj_graph, nj_call.entity_name)))
                 /\ \A i, j \in 1..Len(nj_result.value.events) :
                        i < j => nj_result.value.events[i].date.instant
                                     > nj_result.value.events[j].date.instant
                 /\ \A r \in TimelineRows(nj_graph, nj_call.entity_name) :
                        \A i \in 1..Len(nj_result.value.events) :
                            nj_result.value.events[i].date.instant >= InstantOf(r)
                            \/ \E j \in 1..Len(nj_result.value.events) :
                                   nj_result.value.events[j].date.instant = InstantOf(r)

\* the dates of the articles that mention the entity are all written with
\* the same UTC offset
SameOffset(graph, entity_name) ==
    \A a, b \in TimelineRows(graph, entity_name) :
        /\ a.published_date # None
        /\ Len(TheValue(a.published_date)) = 25
        /\ b.published_date # None
        /\ SubSeq(TheValue(a.published_date), 20, 25) = SubSeq(TheValue(b.published_date), 20, 25)

\* what holds of get_entity_timeline: dates written with one offset come
\* back the limit latest first
C14_NewestFirstWithinOneOffset ==
    (/\ nj_call.op = "get_entity_timeline"
     /\ nj_driver /\ ~nj_call.fault
     /\ DistinctDates(nj_graph, nj_call.entity_name)
     /\ SameOffset(nj_graph, nj_call.entity_name)) =>
        NewestFirst(nj_result.value,
                    TimelineRows(nj_graph, nj_call.entity_name), nj_call.limit)

\* C18: get_related_entities never returns the origin entity and returns
\* no entity twice, also when an entity is reached by paths of several
\* lengths.
C18_RelatedEntitiesOnce ==
    nj_call.op = "get_related_entities" =>
        /\ \A i \in 1..Len(nj_result.value) : nj_result.value[i].name # nj_call.entity_name
        /\ \A i, j \in 1..Len(nj_result.value) :
               nj_result.value[i].name = nj_result.value[j].name => i = j

\* what holds: the origin is never returned, and no entity comes twice with
\* the same distance
C18_OncePerDistance ==
    nj_call.op = "get_related_entities" =>
        /\ \A i \in 1..Len(nj_result.value) : nj_result.value[i].name # nj_call.entity_name
        /\ \A i, j \in 1..Len(nj_result.value) :
               (/\ nj_result.value[i].name = nj_result.value[j].name
                /\ nj_result.value[i].distance = nj_result.value[j].distance) => i = j

-----------------------------------------------------------------------------
(* Properties of find_similar_articles *)

\* C15: find_similar_articles(id, limit, t) returns no article whose id is
\* id, also when the reference article is the best match of the search made
\* with its own title and content, and returns at most limit articles.
C15_ReferenceExcluded ==
    fs_pc = "returned" =>
        /\ \A i \in 1..Len(fs_result) : fs_result[i].id # fs_call.article_id
        /\ Len(fs_result) <= fs_call.limit

\* the reference article is its own best match and other articles are found
C15_Witness ==
    /\ fs_pc = "returned"
    /\ fs_call.has_embedding
    /\ fs_call.chunk_matches # <<>>
    /\ fs_call.chunk_matches[1].article_id = fs_call.article_id
    /\ fs_call.article_id \in fs_store
    /\ Len(fs_result) = fs_call.limit

-----------------------------------------------------------------------------
(* Properties of extract_entities *)

\* the names of the vocabulary that occur in the text, whatever their case
Recognized(text) ==
    { common_entities[i] : i \in { i \in 1..Len(common_entities) :
                                     Contains(Lower(text), common_lower[i]) } }

\* C16: for every text extract_entities returns at most 5 names, each a
\* member of the recognized vocabulary, and no name twice.
C16_AtMostFiveVocabularyNames ==
    ee_pc = "returned" =>
        /\ Len(ee_entities) <= 5
        /\ \A k \in 1..Len(ee_entities) : ee_entities[k] \in Range(common_entities)
        /\ IsInjective(ee_entities)

\* a text that names more than five entities of the vocabulary
C16_Witness ==
    /\ ee_pc = "returned"
    /\ Cardinality(Recognized(ee_text)) > 5
    /\ Len(ee_entities) = 5

\* the index in text at which name first occurs, whatever its case
FirstOccurrence(text, name) ==
    SetMin({ i \in 1..Len(text) : StartsWithAt(Lower(text), i, Lower(name)) })

\* C17: extract_entities returns the names in the order of their first
\* appearance in the text: a name that first occurs before another precedes
\* it in the result.
C17_OrderOfFirstAppearance ==
    ee_pc = "returned" =>
        \A i, j \in 1..Len(ee_entities) :
            FirstOccurrence(ee_text, ee_entities[i]) < FirstOccurrence(ee_text, ee_entities[j])
                => i < j

\* what holds: the names come in the order of the vocabulary
C17_VocabularyOrder ==
    ee_pc = "returned" =>
        \A i, j \in 1..Len(ee_entities) :
            i < j => \E a, b \in 1..Len(common_entities) :
                        /\ a < b
                        /\ common_entities[a] = ee_entities[i]
                        /\ common_entities[b] = ee_entities[j]

-----------------------------------------------------------------------------
(* Properties of search_entities *)

\* the relational rows and then the graph rows, a branch that raised
\* counting for none
BothBranches ==
    (IF se_supabase.state = "raised" THEN <<>> ELSE se_supabase.value)
        \o (IF se_neo4j.state = "raised" THEN <<>> ELSE se_neo4j.value)

\* the indices of q whose name no earlier index carries
FirstOfName(q) == { i \in 1..Len(q) : \A j \in 1..(i - 1) : q[j].name # q[i].name }

\* C19: search_entities joins the relational search and the graph search,
\* whichever ends first; a branch that raised contributes no entity and the
\* entities of the other branch are returned; the result is the first limit
\* entries of relational rows followed by graph rows without the later
\* entries of a name already seen.
C19_MergedAfterJoin ==
    /\ se_pc = "returned" =>
           /\ se_supabase # Pending /\ se_neo4j # Pending
           /\ Len(se_result) = Min(se_req.limit, Cardinality(FirstOfName(BothBranches)))
           /\ \A k \in 1..Len(se_result) :
                  \E i \in FirstOfName(BothBranches) :
                      /\ se_result[k] = BothBranches[i]
                      /\ Cardinality({ j \in FirstOfName(BothBranches) : j < i }) = k - 1
    /\ se_pc = "gathering" => se_result = <<>>

\* the relational branch raised after the graph branch had returned
\* entities, and these are returned
C19_Witness ==
    /\ se_pc = "returned"
    /\ se_supabase.state = "raised"
    /\ se_neo4j.state = "returned"
    /\ se_neo4j.value # <<>>
    /\ se_result # <<>>

-----------------------------------------------------------------------------
(* The letter case of the citation keyword *)

\* text with every keyword that follows "[" and reads source or sources in
\* some letter case written Source or Sources
RECURSIVE CapitalisedKeyword(_)
CapitalisedKeyword(text) ==
    IF text = "" THEN ""
    ELSE IF Char(text, 1) = "[" /\ Lower(PySlice(text, 1, 7)) = "source"
    THEN IF Lower(PySlice(text, 7, 8)) = "s"
         THEN "[Sources" \o CapitalisedKeyword(PySlice(text, 8, Len(text)))
         ELSE "[Source" \o CapitalisedKeyword(PySlice(text, 7, Len(text)))
    ELSE Char(text, 1) \o CapitalisedKeyword(PySlice(text, 1, Len(text)))

\* the names cited by the citation records q
SourceNames(q) == [i \in 1..Len(q) |-> q[i].source_name]

\* C20: a marker whose keyword is written in another letter case
\* ([source: X], [SOURCES: X, Y]) is found by process_response_citations and
\* by extract_citations_from_response as the same marker written
\* [Source: X] is.
C20_KeywordCaseIgnored ==
    (cp_pc = "done" /\ cp_pass = 1) =>
        /\ extract_citations_from_response(cp_text)
               = extract_citations_from_response(CapitalisedKeyword(cp_text))
        /\ ~process_response_citations(CapitalisedKeyword(cp_text), cp_sources, 0).raised =>
               SourceNames(cp_citations)
                   = SourceNames(process_response_citations(CapitalisedKeyword(cp_text),
                                                            cp_sources, 0).citations)

-----------------------------------------------------------------------------
(* Properties of the resolution of a cited name *)

\* the articles of the call whose title is the cited name
ExactMatches == { a \in Range(fn_call.articles) : a.title = fn_call.source_name }

\* the articles whose title is the cited name but for the letter case
CaseMatches ==
    { a \in Range(fn_call.articles) : Lower(a.title) = Lower(fn_call.source_name) }

\* C21: a cited name resolves by exact title first, then by title equal but
\* for the letter case, then by containment: when an article carries the
\* name as its title the resolved article is such an article, and when none
\* does but a title equals the name but for the case, the resolved article
\* is one of these.
C21_ExactTitleFirst ==
    (fn_pc = "returned" /\ fn_call.fn = "_find_matching_article") =>
        /\ (ExactMatches # {} => \E a \in ExactMatches : fn_result = Some(a))
        /\ ((ExactMatches = {} /\ CaseMatches # {}) =>
               \E a \in CaseMatches : fn_result = Some(a))

\* what holds: the resolved article carries the name as its title but for
\* the letter case whenever some article does
C21_CaseMatchBeforeContainment ==
    (fn_pc = "returned" /\ fn_call.fn = "_find_matching_article") =>
        (CaseMatches # {} => \E a \in CaseMatches : fn_result = Some(a))

-----------------------------------------------------------------------------
(* Properties of vector_search *)

\* the position of the first chunk match of the article
FirstMatchOf(article_id) ==
    SetMin({ k \in 1..Len(fn_call.chunk_matches) :
               fn_call.chunk_matches[k].article_id = article_id })

-----------------------------------------------------------------------------
(* Properties of hybrid_search on dangling references *)

\* the article ids of the timeline events of graph_results, in order,
\* restricted to the ids in S
RECURSIVE EventIdsIn(_, _)
EventIdsIn(graph_results, S) ==
    IF graph_results = <<>> THEN <<>>
    ELSE SelectSeq([e \in 1..Len(graph_results[1].timeline) |->
                       graph_results[1].timeline[e].supabase_id],
                   LAMBDA id : id \in S)
         \o EventIdsIn(Tail(graph_results), S)

IdSeq(articles) == [i \in 1..Len(articles) |-> articles[i].id]

\* a timeline event references an article the store does not hold
DanglingEvent ==
    \E id \in ArticleIds \ hs_store :
        EventIdsIn(hs_results.graph_results, {id}) # <<>>

\* C23: a timeline event whose article the relational store does not hold
\* is skipped: once the graph step is over, the collected articles are the
\* vector results followed by one article for each timeline event whose
\* article exists, in order, and nothing else; the request ends with the
\* deduplicated first limit of these and never loses its graph_results.
C23_DanglingReferenceSkipped ==
    LET expected == IdSeq(hs_vector) \o EventIdsIn(hs_results.graph_results, hs_store)
    IN  /\ hs_pc = "fuse" => IdSeq(hs_results.articles) = expected
        /\ hs_pc = "done" =>
              /\ IdsOf(hs_results.articles) \subseteq hs_store
              /\ \A id \in Range(expected) :
                    Len(hs_results.articles) < hs_req.limit => id \in IdsOf(hs_results.articles)

\* a request ends whose timelines hold a dangling reference and a
\* reference to an existing article, with a vector result as well
C23_Witness ==
    /\ hs_pc = "done"
    /\ DanglingEvent
    /\ EventIdsIn(hs_results.graph_results, hs_store) # <<>>
    /\ hs_vector # <<>>
    /\ hs_results.articles # <<>>

-----------------------------------------------------------------------------
(* Properties of hybrid_search without a query entity *)

\* C30: a hybrid_search of search type "graph" that has no query entity
\* sends no search to the vector store nor to the graph store and ends
\* with empty articles and empty graph_results; and no request searches
\* the graph store unless it extracted a query entity.
C30_GraphSearchNeedsEntity ==
    /\ (hs_pc # "idle" /\ hs_req.search_type = "graph" /\ hs_results.query_entities = <<>>) =>
          /\ hs_queried = {}
          /\ hs_results.articles = <<>>
          /\ hs_results.graph_results = <<>>
    /\ "graph" \in hs_queried => hs_results.query_entities # <<>>

\* a "graph" request without a query entity has ended, and so has one that
\* did not ask for entities at all while its query names one
C30_Witness ==
    /\ hs_pc = "done"
    /\ hs_req.search_type = "graph"
    /\ hs_results.query_entities = <<>>
    /\ ~hs_req.include_entities
    /\ extract_entities(hs_req.query) # <<>>

-----------------------------------------------------------------------------
(* Properties of intent classification *)

CascadeOrder == << "timeline", "summary", "search", "explanation", "relationship" >>

CascadeKeywords ==
    [c \in Range(CascadeOrder) |->
        CASE c = "timeline" -> {"timeline", "history", "evolution", "over time"}
          [] c = "summary" -> {"summary", "summarize", "flashcard", "brief"}
          [] c = "search" -> {"search", "find", "look for", "show me"}
          [] c = "explanation" -> {"explain", "what is", "tell me about"}
          [] c = "relationship" -> {"related", "connected", "similar"}]

\* the positions of the categories one of whose keywords is in the
\* lower-cased message
MatchingCategories(message) ==
    { k \in 1..Len(CascadeOrder) :
        \E kw \in CascadeKeywords[CascadeOrder[k]] : Contains(Lower(message), kw) }

FirstCategory(message) ==
    IF MatchingCategories(message) = {} THEN "general"
    ELSE CascadeOrder[SetMin(MatchingCategories(message))]

\* C25: each of the two classifiers gives every message the first category,
\* in the order timeline, summary, search, explanation, relationship, one of
\* whose keywords occurs in the lower-cased message, and "general" when no
\* category has one; so the two give every message the same intent.
C25_SameCascade ==
    (fn_pc = "returned" /\ fn_call.fn = "_classify_intent") =>
        /\ fn_result.agent = FirstCategory(fn_call.message)
        /\ fn_result.node = FirstCategory(fn_call.message)
        /\ fn_result.agent = fn_result.node

\* what holds: the agent's classifier is the cascade, and the node agrees
\* with it on every message the agent does not classify as an explanation
C25_AgentCascade ==
    (fn_pc = "returned" /\ fn_call.fn = "_classify_intent") =>
        /\ fn_result.agent = FirstCategory(fn_call.message)
        /\ fn_result.agent # "explanation" => fn_result.node = fn_result.agent

-----------------------------------------------------------------------------
(* Properties of the history of RAGEnhancedAgent *)

\* C28: whatever calls of process_message_with_rag_details were made, the
\* history of every conversation id has at most 20 entries.
C28_RagHistoryCapped ==
    \A c \in DOMAIN rg_history : Len(rg_history[c]) <= HistoryCap

\* what holds: a history keeps every message of its conversation, the
\* oldest first
C28_RagHistoryKeepsAll ==
    \A c \in DOMAIN rg_history :
        /\ rg_history[c] # <<>> => rg_history[c][1].role = "user"
        /\ \A i, j \in 1..Len(rg_history[c]) :
              i < j => rg_history[c][i].timestamp < rg_history[c][j].timestamp

-----------------------------------------------------------------------------
(* Properties of the turns of process_message *)

RoleAt(i) == IF i % 2 = 1 THEN "user" ELSE "assistant"

\* C29: of the turns made one after the other, each appends one user
\* message and then one assistant message to the list of its conversation,
\* whether it ends with a generated answer, the refusal or a fallback: the
\* list before truncation alternates user, assistant, it has even length
\* once the turn is over, and it ends with the turn's message and answer.
C29_UserThenAssistant ==
    \A c \in DOMAIN ag_log :
        LET h == ag_log[c]
        IN  /\ \A i \in 1..Len(h) : h[i].role = RoleAt(i)
            /\ Len(h) % 2 = Cardinality(AwaitingOn(c))
            /\ \A k \in Calls :
                  (ag_calls[k].conversation_id = c /\ ag_calls[k].pc = "returned"
                   /\ AwaitingOn(c) = {}) =>
                      /\ h[Len(h) - 1].content = ag_calls[k].message
                      /\ h[Len(h)].content = ag_calls[k].result.response

\* two turns are over, one ended with the refusal and the other with an
\* answer the language model generated
C29_Witness ==
    /\ NoCallInFlight
    /\ "c1" \in DOMAIN ag_log
    /\ Len(ag_log["c1"]) = 4
    /\ ag_log["c1"][2].content = NO_SOURCES_RESPONSE
    /\ ag_log["c1"][4].content \in GeneratedTexts

-----------------------------------------------------------------------------
(* Properties of interleaved process_message calls *)

\* the assistant message at position i answers the user message before it
AnswersPrevious(h, i) ==
    /\ i > 1
    /\ h[i - 1].role = "user"
    /\ h[i].entities_mentioned = extract_entities(h[i - 1].content)
    /\ h[i - 1].timestamp < h[i].timestamp

\* all the messages the histories hold
AllMessages ==
    UNION { { ag_history[c][i] : i \in 1..Len(ag_history[c]) } : c \in DOMAIN ag_history }

\* C26: when calls for different conversation ids interleave, the history
\* of each conversation id holds the messages of its own turns and no
\* other, in the order of its turns: a user message and then its answer for
\* each finished turn, and one more user message, that of the call, while
\* a call of that conversation is suspended; and no message is lost or
\* entered twice.
C26_HistoriesIndependent ==
    /\ \A c \in DOMAIN ag_history :
          LET h == ag_history[c]
          IN  /\ \A i \in 1..Len(h) :
                    /\ h[i].role = RoleAt(i)
                    /\ h[i].role = "assistant" => AnswersPrevious(h, i)
              /\ Len(h) % 2 = Cardinality(AwaitingOn(c))
              /\ \A k \in AwaitingOn(c) : h[Len(h)].content = ag_calls[k].message
    /\ Cardinality(AllMessages) = ag_clock

\* two calls of different conversation ids were suspended together, the
\* one that began first returned first, and both are over
C26_Witness ==
    /\ NoCallInFlight
    /\ DOMAIN ag_history = {"c1", "c2"}
    /\ \A c \in {"c1", "c2"} : Len(ag_history[c]) = 2
    /\ \E c, d \in {"c1", "c2"} :
          /\ ag_history[c][1].timestamp < ag_history[d][1].timestamp
          /\ ag_history[d][1].timestamp < ag_history[c][2].timestamp
          /\ ag_history[c][2].timestamp < ag_history[d][2].timestamp
    /\ ag_history["c1"][1].content # ag_history["c2"][1].content

\* C27: when two calls for one conversation id interleave, every message
\* either call appended is in the history once, the history has at most 20
\* entries, and the assistant message of each turn comes directly after the
\* user message of that turn.
C27_SafeConcurrentAppend ==
    \A c \in DOMAIN ag_history :
        LET h == ag_history[c]
        IN  /\ Len(h) <= HistoryCap
            /\ Len(h) = ag_clock
            /\ \A i, j \in 1..Len(h) : h[i].timestamp = h[j].timestamp => i = j
            /\ \A i \in 1..Len(h) : h[i].role = "assistant" => AnswersPrevious(h, i)

\* what holds of two interleaved calls for one conversation id: nothing is
\* lost or entered twice, and the messages are in the order they were appended
C27_NothingLostOrDuplicated ==
    \A c \in DOMAIN ag_history :
        LET h == ag_history[c]
        IN  /\ Len(h) <= HistoryCap
            /\ Len(h) = ag_clock
            /\ \A i, j \in 1..Len(h) : i < j => h[i].timestamp < h[j].timestamp

-----------------------------------------------------------------------------
(* Properties of the order of the steps of one chat request *)

\* what the two searches of the request have brought
Collected == hs_vector \o GraphArticles(hs_results.graph_results, hs_store)

\* the graph search the request needs has come back
GraphSearchOver ==
    (hs_req.search_type \in {"graph", "hybrid"} /\ hs_results.query_entities # <<>>) =>
        /\ "graph" \in hs_queried
        /\ Len(hs_results.graph_results) = Len(hs_results.query_entities)

\* C24: within one chat request, the deduplication of hybrid_search begins
\* only when the vector search and the graph search are over, so that it
\* works on the results of both, and the citation processing begins only
\* when process_message has returned the generated text, which is the text
\* it processes.
C24_FusionAndCitationsInOrder ==
    [][ /\ (hs_pc = "fuse" /\ hs_pc' = "done") =>
              /\ GraphSearchOver
              /\ hs_results.articles = Collected
              /\ hs_results'.articles
                    = SubSeq(UniqueArticles(Collected), 1,
                             Min(hs_req.limit, Len(UniqueArticles(Collected))))
        /\ (cp_pc = "idle" /\ cp_pc' # "idle") =>
              /\ ag_calls[1].pc = "returned"
              /\ hs_pc \in {"idle", "done"}
              /\ cp_text' = ag_calls[1].result.response
              /\ cp_sources' = ag_calls[1].result.sources ]_vars

\* a request is answered whose fallback made a vector search that found an
\* article and a graph search, and whose generated text carries a citation
C24_Witness ==
    /\ ch_pc = "answered"
    /\ hs_pc = "done"
    /\ hs_vector # <<>>
    /\ hs_results.graph_results # <<>>
    /\ cp_pc = "done"
    /\ cp_citations # <<>>

====
